---------------------------- MODULE Spec2Model ----------------------------
(***************************************************************************)
(* SysMate: the filesystem usage and cleanup analysis engine.              *)
(*                                                                         *)
(*   modules/disk_analyzer/src/lib.rs    calculate_folder_size             *)
(*   modules/system_cleaner/src/lib.rs   calculate_dir_size,               *)
(*                                       count_files_in_dir,               *)
(*                                       scan_cleanable_items, clean_*     *)
(*   core/src/ui/system_cleaner_view.rs  scan_items, clean_selected        *)
(*                                                                         *)
(* A filesystem is a function from node ids to entries.  An entry has a    *)
(* kind, the id of the directory that holds it, a length in bytes and,     *)
(* for a symbolic link, the id of the node it points to.                   *)
(***************************************************************************)
EXTENDS Integers, Sequences, FiniteSets, TLC

VARIABLES
    fs,        \* the filesystem: node id -> entry
    res,       \* disk analyzer: results of calculate_folder_size(root, 0, d), d = 0, 1, ..
    dsz,       \* system cleaner: result of calculate_dir_size / count_files_in_dir on the root
    walk,      \* a traversal in progress: the function, its max_depth, its call stack
    wret,      \* what the traversal returned
    seen,      \* history: how often each node's length was added or its listing read
    links,     \* history: the symbolic-link entries taken for a file or a directory
    steps,     \* history: loop iterations and returns of the traversal so far
    phase,     \* "env": the filesystem is being set up; then the last call made:
               \* "scanned" (scan_cleanable_items), "cleaned" (a cleanup request)
    items,     \* the Vec<CleanupItem> of the last scan (the view's `items`)
    rows,      \* the view's list box: one row per child, with its check button
    log,       \* history: the clean_category calls of the last request, in order
    cleaned,   \* what clean_selected returned (cleaned_count)
    pre,       \* history: the filesystem before the last cleanup request
    asked,     \* history: the view's items and rows when clean_selected last began
    layout,    \* where ActionRow::add_prefix puts a widget: "direct" (a child of the
               \* row itself) or "nested" (inside a box of the row); "unset": no view
    mtab,      \* /proc/mounts: whether it can be read, and its contents
    statfs,    \* what statvfs answers for the mount point of each line of mtab
    mounts,    \* what get_mount_points did last: its Result, or a panic
    sysfs,     \* /sys/class/thermal and /sys/class/hwmon
    sensors,   \* what get_temperatures did last
    probe,     \* the last call of temperature_status: its argument and its result
    folders,   \* what get_common_large_folders or analyze_folder did last
    shown,     \* the last call of a format_size: its argument and the text returned
    scanning,  \* a scan_cleanable_items under way, run traversal by traversal
    cleaners   \* two clean_* calls on one directory under way, run step by step

aggVars == <<res, dsz>>

walkVars == <<walk, wret, seen, links, steps>>

cleanVars == <<phase, items, rows, log, cleaned, pre, asked, layout>>

sysVars == <<mtab, statfs, mounts, sysfs, sensors, probe>>

toolVars == <<folders, shown, scanning, cleaners>>

vars ==
    <<fs, res, dsz, walk, wret, seen, links, steps,
      phase, items, rows, log, cleaned, pre, asked, layout,
      mtab, statfs, mounts, sysfs, sensors, probe,
      folders, shown, scanning, cleaners>>

(***************************************************************************)
(* Bounds of the model.                                                    *)
(***************************************************************************)
MaxNodes == 3          \* entries below the root of an analysed tree
MaxFileSize == 2       \* length of a regular file, in bytes
MaxDepth == 2          \* largest max_depth handed to calculate_folder_size
MaxLines == 3          \* lines of the mount table
WordBits == 4          \* width of the words that stand for u64
MaxBlocks == 3         \* largest block count statvfs reports
MaxSensors == 3        \* entries of /sys/class/thermal and hwmon; input files of the chips
MaxCelsius == 90       \* largest whole temperature handed to temperature_status
MaxCandidates == 2     \* candidates of get_common_large_folders that exist

(***************************************************************************)
(* Entries.                                                                *)
(*   "file"        regular file                                            *)
(*   "dir"         directory that read_dir can list                        *)
(*   "dir_noread"  directory whose listing fails (permission denied)       *)
(*   "symlink"     symbolic link, pointing to node `target`                *)
(*   "nostat"      entry that read_dir yields but whose metadata() fails   *)
(*   "none"        no such entry                                           *)
(***************************************************************************)
Root == 0

TreeNodes == 0..MaxNodes

NoEntry == [kind |-> "none", parent |-> 0, size |-> 0, target |-> 0]

Entry(k, p, s, t) == [kind |-> k, parent |-> p, size |-> s, target |-> t]

Present(f, n) == f[n].kind # "none"

\* The entries that read_dir(path) yields when it succeeds.
Entries(f, path) == {n \in DOMAIN f : n # path /\ Present(f, n) /\ f[n].parent = path}

\* fs::read_dir(path) follows a symbolic link given as the path itself.
RECURSIVE Resolve(_, _, _)
Resolve(f, n, fuel) ==
    IF f[n].kind = "symlink" /\ fuel > 0 THEN Resolve(f, f[n].target, fuel - 1) ELSE n

ReadDirOk(f, path) == f[Resolve(f, path, Cardinality(DOMAIN f))].kind = "dir"

ReadDir(f, path) == Entries(f, Resolve(f, path, Cardinality(DOMAIN f)))

\* Mutant: the metadata of what the entry points to (fs::metadata(entry.path())).
EntryMetadataFollowsLinks(f, e) == f[Resolve(f, e, Cardinality(DOMAIN f))]

\* DirEntry::metadata(): the entry's own type, a symbolic link is not followed.
EntryMetadata(f, e) == f[e]

MetadataOk(f, e) == EntryMetadata(f, e).kind # "nostat"

MetadataIsFile(f, e) == EntryMetadata(f, e).kind = "file"

MetadataIsDir(f, e) == EntryMetadata(f, e).kind \in {"dir", "dir_noread"}

MetadataLen(f, e) == EntryMetadata(f, e).size

(***************************************************************************)
(* disk_analyzer: calculate_folder_size(path, current_depth, max_depth)    *)
(***************************************************************************)
Totals(s, fc, dc) == [size |-> s, files |-> fc, dirs |-> dc]

ZeroTotals == Totals(0, 0, 0)

\* Mutants of the depth guard: one level too deep, and the comparison turned round.
DepthExceededOneLater(current_depth, max_depth) == current_depth > max_depth + 1

DepthExceededFlipped(current_depth, max_depth) == max_depth > current_depth

DepthExceeded(current_depth, max_depth) == current_depth > max_depth

RECURSIVE calculate_folder_size(_, _, _, _)
RECURSIVE FolderLoop(_, _, _, _, _)

\* Mutant of the loop: an entry whose metadata cannot be read ends the loop.
RECURSIVE FolderLoopStops(_, _, _, _, _)
FolderLoopStops(f, todo, acc, current_depth, max_depth) ==
    IF todo = {} THEN acc
    ELSE LET entry == CHOOSE e \in todo : \A o \in todo : e <= o
             rest == todo \ {entry}
         IN  IF ~MetadataOk(f, entry) THEN acc
             ELSE IF MetadataIsFile(f, entry)
               THEN FolderLoopStops(f, rest,
                                    Totals(acc.size + MetadataLen(f, entry),
                                           acc.files + 1, acc.dirs),
                                    current_depth, max_depth)
             ELSE IF MetadataIsDir(f, entry)
               THEN LET sub == calculate_folder_size(f, entry, current_depth + 1, max_depth)
                    IN  FolderLoopStops(f, rest,
                                        Totals(acc.size + sub.size,
                                               acc.files + sub.files,
                                               acc.dirs + 1 + sub.dirs),
                                        current_depth, max_depth)
             ELSE FolderLoopStops(f, rest, acc, current_depth, max_depth)

\* The `for entry in entries.flatten()` loop, over the entries not yet seen.
FolderLoop(f, todo, acc, current_depth, max_depth) ==
    IF todo = {} THEN acc
    ELSE LET entry == CHOOSE e \in todo : \A o \in todo : e <= o
             rest == todo \ {entry}
         IN  IF ~MetadataOk(f, entry)
               THEN FolderLoop(f, rest, acc, current_depth, max_depth)
             ELSE IF MetadataIsFile(f, entry)
               THEN FolderLoop(f, rest,
                               Totals(acc.size + MetadataLen(f, entry),
                                      acc.files + 1, acc.dirs),
                               current_depth, max_depth)
             ELSE IF MetadataIsDir(f, entry)
               THEN LET sub == calculate_folder_size(f, entry, current_depth + 1, max_depth)
                    IN  FolderLoop(f, rest,
                                   Totals(acc.size + sub.size,
                                          acc.files + sub.files,
                                          acc.dirs + 1 + sub.dirs),
                                   current_depth, max_depth)
             ELSE FolderLoop(f, rest, acc, current_depth, max_depth)

calculate_folder_size(f, path, current_depth, max_depth) ==
    IF DepthExceeded(current_depth, max_depth) THEN ZeroTotals
    ELSE IF ~ReadDirOk(f, path) THEN ZeroTotals
    ELSE FolderLoop(f, ReadDir(f, path), ZeroTotals, current_depth, max_depth)

(***************************************************************************)
(* system_cleaner: calculate_dir_size(path), count_files_in_dir(path)      *)
(***************************************************************************)
RECURSIVE calculate_dir_size(_, _)
RECURSIVE DirSizeLoop(_, _, _)

DirSizeLoop(f, todo, total) ==
    IF todo = {} THEN total
    ELSE LET entry == CHOOSE e \in todo : \A o \in todo : e <= o
             rest == todo \ {entry}
         IN  IF ~MetadataOk(f, entry) THEN DirSizeLoop(f, rest, total)
             ELSE IF MetadataIsFile(f, entry)
               THEN DirSizeLoop(f, rest, total + MetadataLen(f, entry))
             ELSE IF MetadataIsDir(f, entry)
               THEN DirSizeLoop(f, rest, total + calculate_dir_size(f, entry))
             ELSE DirSizeLoop(f, rest, total)

calculate_dir_size(f, path) ==
    IF ~ReadDirOk(f, path) THEN 0 ELSE DirSizeLoop(f, ReadDir(f, path), 0)

RECURSIVE count_files_in_dir(_, _)
RECURSIVE CountLoop(_, _, _)

CountLoop(f, todo, count) ==
    IF todo = {} THEN count
    ELSE LET entry == CHOOSE e \in todo : \A o \in todo : e <= o
             rest == todo \ {entry}
         IN  IF ~MetadataOk(f, entry) THEN CountLoop(f, rest, count)
             ELSE IF MetadataIsFile(f, entry) THEN CountLoop(f, rest, count + 1)
             ELSE IF MetadataIsDir(f, entry)
               THEN CountLoop(f, rest, count + count_files_in_dir(f, entry))
             ELSE CountLoop(f, rest, count)

count_files_in_dir(f, path) ==
    IF ~ReadDirOk(f, path) THEN 0 ELSE CountLoop(f, ReadDir(f, path), 0)

(***************************************************************************)
(* The trees handed to the aggregators: a root directory (listable or not) *)
(* and up to MaxNodes entries below it, each held by a directory with a    *)
(* smaller id.  A symbolic link points to the root (an ancestor of every   *)
(* entry) or to the entry made just before it.                             *)
(***************************************************************************)
EntryChoices(f, n) ==
    LET holders == {p \in 0..(n - 1) : f[p].kind \in {"dir", "dir_noread"}}
        targets == {Root, n - 1}
    IN  {Entry("file", p, s, 0) : p \in holders, s \in 1..MaxFileSize}
        \cup {Entry(k, p, 0, 0) : p \in holders, k \in {"dir", "dir_noread", "nostat"}}
        \cup {Entry("symlink", p, 0, t) : p \in holders, t \in targets}

RootChoices == {Entry("dir", 0, 0, 0), Entry("dir_noread", 0, 0, 0)}

\* nix::sys::statvfs::Statvfs, as far as it is read; Err(..) is StatErr.
Statvfs(bs, b, f, a) ==
    [ok |-> TRUE, block_size |-> bs, blocks |-> b, blocks_free |-> f, blocks_available |-> a]

StatErr ==
    [ok |-> FALSE, block_size |-> 0, blocks |-> 0, blocks_free |-> 0, blocks_available |-> 0]

StatOk(stat) == stat.ok

MountPaths == {"/", "/mnt"}

DiskA == Statvfs(2, 3, 2, 1)

DiskB == Statvfs(1, 2, 1, 1)

\* Nothing of the mount table or of /sys has been looked at; both are empty.
NotCalled == [result |-> "none", value |-> <<>>]

\* No format_size, no stepwise scan and no concurrent cleanup has been started.
NoFolders == [fn |-> "none", enumerated |-> <<>>, result |-> "none", value |-> <<>>]
NotShown == [variant |-> "none", bytes |-> [mib |-> 0, rest |-> 0], text |-> ""]

NotScanning ==
    [stage |-> "idle", at |-> 0, size |-> 0, browser_size |-> 0, browser_count |-> 0,
     browser_paths |-> <<>>, items |-> <<>>]

NoCleaners == [category |-> "none", existed |-> {}, filled |-> {}, procs |-> <<>>]

ToolsIdle ==
    /\ folders = NoFolders
    /\ shown = NotShown
    /\ scanning = NotScanning
    /\ cleaners = NoCleaners

SysIdle ==
    /\ mtab = [readable |-> TRUE, contents |-> ""]
    /\ statfs = [p \in MountPaths |-> IF p = "/" THEN DiskA ELSE DiskB]
    /\ mounts = NotCalled
    /\ sysfs = [thermal |-> [readable |-> TRUE, entries |-> <<>>],
                hwmon   |-> [readable |-> TRUE, entries |-> <<>>]]
    /\ sensors = NotCalled
    /\ probe = [celsius |-> 0, status |-> "none"]

NoSizes == [size |-> -1, count |-> -1]

(***************************************************************************)
(* SpecAgg: the aggregators applied to every tree of the family.           *)
(***************************************************************************)
NoWalk == [fn |-> "none", max_depth |-> 0, stack |-> <<>>]

NoRet == [size |-> -1, files |-> -1, dirs |-> -1]

AggIdle == res = <<>> /\ dsz = NoSizes

WalkIdle == walk = NoWalk /\ wret = NoRet

InitTree ==
    /\ fs \in {[m \in TreeNodes |-> IF m = Root THEN r ELSE NoEntry] : r \in RootChoices}
    /\ res = <<>>
    /\ dsz = NoSizes
    /\ walk = NoWalk
    /\ wret = NoRet
    /\ seen = [n \in TreeNodes |-> 0]
    /\ links = {}
    /\ steps = 0
    /\ phase = "env"
    /\ items = <<>>
    /\ rows = <<>>
    /\ log = <<>>
    /\ cleaned = 0
    /\ pre = <<>>
    /\ asked = [items |-> <<>>, rows |-> <<>>]
    /\ layout = "unset"
    /\ SysIdle
    /\ ToolsIdle

InitAgg == InitTree

\* Before the aggregators run, the tree gets its next entry (a file is written, a
\* directory or a symbolic link is made).  It stays unchanged once they have run.
CreateEntry ==
    /\ AggIdle /\ WalkIdle
    /\ \E n \in 1..MaxNodes :
          /\ ~Present(fs, n)
          /\ n = 1 \/ Present(fs, n - 1)
          /\ \E e \in EntryChoices(fs, n) : fs' = [fs EXCEPT ![n] = e]
    /\ UNCHANGED <<toolVars, sysVars, aggVars, walkVars, cleanVars>>

\* calculate_folder_size(root, 0, d) for d = Len(res): res[d + 1] is its result.
CalcFolderSize ==
    /\ Len(res) <= MaxDepth
    /\ res' = Append(res, calculate_folder_size(fs, Root, 0, Len(res)))
    /\ UNCHANGED <<toolVars, sysVars, fs, dsz, walkVars, cleanVars>>

\* The pair of traversals scan_cleanable_items runs on one path.
CalcDirSize ==
    /\ dsz = NoSizes
    /\ dsz' = [size |-> calculate_dir_size(fs, Root), count |-> count_files_in_dir(fs, Root)]
    /\ UNCHANGED <<toolVars, sysVars, fs, res, walkVars, cleanVars>>

NextAgg == CreateEntry \/ CalcFolderSize \/ CalcDirSize

SpecAgg == InitAgg /\ [][NextAgg]_vars

(***************************************************************************)
(* What a traversal from the root is expected to see, stated on the tree   *)
(* itself.  An entry is listed when every directory from the root down to  *)
(* the one holding it can be listed; its level is its distance from the    *)
(* root, so the directory holding it is at level Level - 1.                *)
(***************************************************************************)
RECURSIVE Level(_, _)
Level(f, n) == IF n = Root THEN 0 ELSE 1 + Level(f, f[n].parent)

RECURSIVE Listed(_, _)
Listed(f, n) ==
    \/ n = Root
    \/ /\ Present(f, n)
       /\ f[f[n].parent].kind = "dir"
       /\ Listed(f, f[n].parent)

Below(f) == {n \in DOMAIN f : n # Root /\ Listed(f, n)}

\* The regular files held by listed directories at level <= d.
FilesWithin(f, d) == {n \in Below(f) : f[n].kind = "file" /\ Level(f, n) - 1 <= d}

\* The directories held by listed directories at level <= d.
DirsWithin(f, d) ==
    {n \in Below(f) : f[n].kind \in {"dir", "dir_noread"} /\ Level(f, n) - 1 <= d}

\* The regular files held by listed directories at level exactly d.
FilesAt(f, d) == {n \in Below(f) : f[n].kind = "file" /\ Level(f, n) - 1 = d}

RECURSIVE SumSizes(_, _)
SumSizes(f, S) ==
    IF S = {} THEN 0
    ELSE LET n == CHOOSE x \in S : TRUE IN f[n].size + SumSizes(f, S \ {n})

AnyDepth == MaxNodes

\* The tree with everything a traversal cannot read taken away: an entry without
\* metadata is gone, a directory that cannot be listed is an empty directory.
ReadablePart(f) ==
    [n \in DOMAIN f |->
        IF n # Root /\ (~Listed(f, n) \/ f[n].kind = "nostat") THEN NoEntry
        ELSE IF f[n].kind = "dir_noread" THEN [f[n] EXCEPT !.kind = "dir"]
        ELSE f[n]]

(***************************************************************************)
(* C1: calculate_folder_size(root, 0, d) counts exactly the regular files  *)
(* of the (listable) directories at nesting level <= d, the root being at  *)
(* level 0; with d = 0 these are the files held by the root itself and no  *)
(* file of a subdirectory.                                                 *)
(***************************************************************************)
C1_DepthBound ==
    \A i \in 1..Len(res) :
        LET d == i - 1
        IN  /\ res[i].files = Cardinality(FilesWithin(fs, d))
            /\ res[i].size = SumSizes(fs, FilesWithin(fs, d))
            /\ d = 0 =>
                  res[i].files =
                     Cardinality({n \in Below(fs) : fs[n].kind = "file" /\ fs[n].parent = Root})

C1_Witness ==
    /\ Len(res) >= 1
    /\ res[1].files >= 1
    /\ \E n \in Below(fs) : fs[n].kind = "file" /\ Level(fs, n) = 2

(***************************************************************************)
(* C2, as claimed: a subdirectory met at current_depth <= max_depth folds  *)
(* in the files held by that subdirectory whatever its depth, so that the  *)
(* files of the directories at level max_depth + 1 are counted too.        *)
(***************************************************************************)
C2_AsClaimed ==
    \A i \in 1..Len(res) :
        LET d == i - 1
        IN  /\ res[i].files = Cardinality(FilesWithin(fs, d + 1))
            /\ res[i].size = SumSizes(fs, FilesWithin(fs, d + 1))

(***************************************************************************)
(* C2, amended: every subdirectory met at current_depth <= max_depth is    *)
(* counted as a directory, and what it folds in stops at the depth bound:  *)
(* the files held by the directories at level max_depth + 1 are the files  *)
(* that the result leaves out of those within level max_depth + 1.         *)
(***************************************************************************)
C2_ChildBeyondBoundIsEmpty ==
    \A i \in 1..Len(res) :
        LET d == i - 1
        IN  /\ res[i].dirs = Cardinality(DirsWithin(fs, d))
            /\ res[i].files + Cardinality(FilesAt(fs, d + 1))
                  = Cardinality(FilesWithin(fs, d + 1))
            /\ res[i].size + SumSizes(fs, FilesAt(fs, d + 1))
                  = SumSizes(fs, FilesWithin(fs, d + 1))

C2_Witness ==
    /\ Len(res) >= 1
    /\ res[1].dirs >= 1
    /\ FilesAt(fs, 1) # {}

(***************************************************************************)
(* C3: on an unchanged tree the size, the file count and the directory     *)
(* count of calculate_folder_size(root, 0, d + 1) are each at least those  *)
(* of calculate_folder_size(root, 0, d).                                   *)
(***************************************************************************)
C3_MonotonicInDepth ==
    \A i \in 1..(Len(res) - 1) :
        /\ res[i + 1].size >= res[i].size
        /\ res[i + 1].files >= res[i].files
        /\ res[i + 1].dirs >= res[i].dirs

C3_Witness ==
    /\ Len(res) >= 2
    /\ res[2].size > res[1].size
    /\ res[2].files > res[1].files

(***************************************************************************)
(* C4: the aggregators always return totals, and the totals are those of   *)
(* the readable part of the tree: a directory that cannot be listed counts *)
(* as an empty one, an entry without metadata is left out, and every other *)
(* entry is aggregated as if the unreadable ones were not there.           *)
(***************************************************************************)
C4_ReadablePartAggregated ==
    /\ \A i \in 1..Len(res) :
          /\ res[i].size \in Nat /\ res[i].files \in Nat /\ res[i].dirs \in Nat
          /\ res[i] = calculate_folder_size(ReadablePart(fs), Root, 0, i - 1)
          /\ res[i].dirs = Cardinality(DirsWithin(fs, i - 1))
    /\ dsz # NoSizes =>
          /\ dsz.size = SumSizes(fs, FilesWithin(fs, AnyDepth))
          /\ dsz.count = Cardinality(FilesWithin(fs, AnyDepth))

C4_Witness ==
    /\ Len(res) >= 1 /\ res[1].files >= 1
    /\ dsz # NoSizes /\ dsz.count >= 1
    /\ \E u \in Below(fs) :
          /\ fs[u].kind \in {"dir_noread", "nostat"}
          /\ fs[u].parent = Root

(***************************************************************************)
(* SpecWalk: one traversal run step by step, the recursion of              *)
(* calculate_folder_size, calculate_dir_size and count_files_in_dir kept   *)
(* as a call stack.  A frame is one activation: its path, its              *)
(* current_depth, the entries its loop has still to see, its totals.       *)
(***************************************************************************)
Frame(p, d, todo, acc) == [path |-> p, depth |-> d, todo |-> todo, acc |-> acc]

WalkFns == {"calculate_folder_size", "calculate_dir_size", "count_files_in_dir"}

\* No traversal nests its calls deeper than the tree has directories, nor takes
\* more steps than twice its entries; the guards below stop a runaway one.
StackCap == MaxNodes + 3

StepCap == 2 * MaxNodes + 6

\* The activation returns at once: the depth guard (calculate_folder_size only) or
\* a read_dir that fails.
ReturnsEmpty(f, fn, path, depth, max_depth) ==
    \/ fn = "calculate_folder_size" /\ DepthExceeded(depth, max_depth)
    \/ ~ReadDirOk(f, path)

Bump(h, n) == [h EXCEPT ![n] = @ + 1]

Target(f, n) == Resolve(f, n, Cardinality(DOMAIN f))

\* A regular file adds to the totals each function keeps.
AddFile(fn, acc, len) ==
    CASE fn = "calculate_folder_size" -> Totals(acc.size + len, acc.files + 1, acc.dirs)
      [] fn = "calculate_dir_size"    -> Totals(acc.size + len, acc.files, acc.dirs)
      [] fn = "count_files_in_dir"    -> Totals(acc.size, acc.files + 1, acc.dirs)

\* The caller's totals with a callee's folded in.
Fold(acc, sub) == Totals(acc.size + sub.size, acc.files + sub.files, acc.dirs + sub.dirs)

InitWalk == InitTree

\* The top-level call on the root.
WalkStart ==
    /\ AggIdle /\ WalkIdle
    /\ \E fn \in WalkFns, d \in 0..MaxDepth :
          /\ fn # "calculate_folder_size" => d = 0
          /\ IF ReturnsEmpty(fs, fn, Root, 0, d)
               THEN /\ walk' = [fn |-> fn, max_depth |-> d, stack |-> <<>>]
                    /\ wret' = ZeroTotals
                    /\ seen' = seen
               ELSE /\ walk' = [fn |-> fn, max_depth |-> d,
                                stack |-> <<Frame(Root, 0, ReadDir(fs, Root), ZeroTotals)>>]
                    /\ wret' = wret
                    /\ seen' = Bump(seen, Target(fs, Root))
    /\ steps' = steps + 1
    /\ UNCHANGED <<toolVars, sysVars, fs, aggVars, links, cleanVars>>

\* One iteration of the loop of the innermost activation.
WalkEntry ==
    /\ walk.stack # <<>>
    /\ steps < StepCap
    /\ LET top   == walk.stack[Len(walk.stack)]
           below == SubSeq(walk.stack, 1, Len(walk.stack) - 1)
           fn    == walk.fn
       IN  /\ top.todo # {}
           /\ LET entry == CHOOSE e \in top.todo : \A o \in top.todo : e <= o
                  rest  == [top EXCEPT !.todo = top.todo \ {entry}]
                  isLnk == fs[entry].kind = "symlink"
              IN  IF ~MetadataOk(fs, entry)
                    THEN /\ walk' = [walk EXCEPT !.stack = Append(below, rest)]
                         /\ UNCHANGED <<seen, links>>
                  ELSE IF MetadataIsFile(fs, entry)
                    THEN /\ walk' = [walk EXCEPT !.stack =
                                Append(below, [rest EXCEPT !.acc =
                                    AddFile(fn, top.acc, MetadataLen(fs, entry))])]
                         /\ seen' = Bump(seen, Target(fs, entry))
                         /\ links' = IF isLnk THEN links \cup {entry} ELSE links
                  ELSE IF MetadataIsDir(fs, entry)
                    THEN LET counted == IF fn = "calculate_folder_size"
                                          THEN [rest EXCEPT !.acc.dirs = @ + 1]
                                          ELSE rest
                         IN  /\ links' = IF isLnk THEN links \cup {entry} ELSE links
                             /\ IF ReturnsEmpty(fs, fn, entry, top.depth + 1, walk.max_depth)
                                  THEN /\ walk' = [walk EXCEPT !.stack = Append(below, counted)]
                                       /\ seen' = seen
                                  ELSE /\ Len(walk.stack) < StackCap
                                       /\ walk' = [walk EXCEPT !.stack =
                                              Append(Append(below, counted),
                                                     Frame(entry, top.depth + 1,
                                                           ReadDir(fs, entry), ZeroTotals))]
                                       /\ seen' = Bump(seen, Target(fs, entry))
                  ELSE /\ walk' = [walk EXCEPT !.stack = Append(below, rest)]
                       /\ UNCHANGED <<seen, links>>
    /\ steps' = steps + 1
    /\ UNCHANGED <<toolVars, sysVars, fs, aggVars, wret, cleanVars>>

\* The innermost activation has seen all its entries and returns its totals.
WalkReturn ==
    /\ walk.stack # <<>>
    /\ steps < StepCap
    /\ LET n   == Len(walk.stack)
           top == walk.stack[n]
       IN  /\ top.todo = {}
           /\ IF n = 1
                THEN /\ wret' = top.acc
                     /\ walk' = [walk EXCEPT !.stack = <<>>]
                ELSE /\ wret' = wret
                     /\ walk' = [walk EXCEPT !.stack =
                            Append(SubSeq(walk.stack, 1, n - 2),
                                   [walk.stack[n - 1] EXCEPT !.acc = Fold(@, top.acc)])]
    /\ steps' = steps + 1
    /\ UNCHANGED <<toolVars, sysVars, fs, aggVars, seen, links, cleanVars>>

NextWalk == CreateEntry \/ WalkStart \/ WalkEntry \/ WalkReturn

SpecWalk == InitWalk /\ [][NextWalk]_vars

\* What the stepwise traversal must return: the value of the function it runs.
Expected(f, fn, d) ==
    CASE fn = "calculate_folder_size" -> calculate_folder_size(f, Root, 0, d)
      [] fn = "calculate_dir_size"    -> Totals(calculate_dir_size(f, Root), 0, 0)
      [] fn = "count_files_in_dir"    -> Totals(0, count_files_in_dir(f, Root), 0)

WalkReturned == wret # NoRet

(***************************************************************************)
(* C5: no traversal counts or descends into an entry that is a symbolic    *)
(* link; every file's length is added and every directory's listing read   *)
(* at most once; and the traversal returns after a number of steps bounded *)
(* by the size of the tree, also when symbolic links form a cycle.         *)
(***************************************************************************)
C5_LinksSkippedAndTerminates ==
    /\ links = {}
    /\ \A n \in DOMAIN fs : seen[n] <= 1 /\ (fs[n].kind = "symlink" => seen[n] = 0)
    /\ Len(walk.stack) <= 1 + Cardinality({n \in Below(fs) : fs[n].kind = "dir"})
    /\ steps <= 2 + 2 * Cardinality({n \in DOMAIN fs : n # Root /\ Present(fs, n)})
    /\ walk.stack # <<>> => ENABLED (WalkEntry \/ WalkReturn)
    /\ WalkReturned => wret = Expected(fs, walk.fn, walk.max_depth)

\* A traversal has returned on a tree where a link in a subdirectory points back to
\* the root, and has counted a file.
C5_Witness ==
    /\ WalkReturned
    /\ seen # [n \in TreeNodes |-> 0]
    /\ \E l \in Below(fs) :
          /\ fs[l].kind = "symlink" /\ fs[l].target = Root /\ fs[l].parent # Root
    /\ \E n \in Below(fs) : fs[n].kind = "file" /\ seen[n] = 1

(***************************************************************************)
(* system_cleaner: the catalogue of scan_cleanable_items and the clean_*   *)
(* functions.  The catalogue directories are nodes of their own; whatever  *)
(* lies below them takes the ids after them.  At most MaxNodes filesystem  *)
(* objects exist at a time.                                                *)
(***************************************************************************)
apt_cache == 1

thumbnails == 2

trash_files == 3

trash_info == 4

journal_path == 5

firefox_cache == 6

chrome_cache == 7

tmp == 8

CatalogPaths ==
    {apt_cache, thumbnails, trash_files, trash_info, journal_path,
     firefox_cache, chrome_cache, tmp}

BelowIds == {tmp + i : i \in 1..MaxNodes}

CleanNodes == CatalogPaths \cup BelowIds

Outside == 0

CleanupCategory ==
    {"PackageCache", "Thumbnails", "Trash", "Logs", "OldKernels", "BrowserCache", "TempFiles"}

CleanupItem(c, s, n, ps) == [category |-> c, size |-> s, count |-> n, paths |-> ps]

\* Path::exists()
PathExists(f, p) == Present(f, p)

\* `if p.exists() { size, count, push }`: the categories with one path and no test.
ScanPath(f, c, p) ==
    IF PathExists(f, p)
      THEN <<CleanupItem(c, calculate_dir_size(f, p), count_files_in_dir(f, p), <<p>>)>>
      ELSE <<>>

\* Mutant: Chrome's directory is looked at only when Firefox's does not exist.
ScanBrowserFirstFound(f) ==
    LET p == IF PathExists(f, firefox_cache) THEN firefox_cache ELSE chrome_cache
        browser_size == IF PathExists(f, p) THEN calculate_dir_size(f, p) ELSE 0
        browser_count == IF PathExists(f, p) THEN count_files_in_dir(f, p) ELSE 0
    IN  IF browser_size > 0
          THEN <<CleanupItem("BrowserCache", browser_size, browser_count, <<p>>)>>
          ELSE <<>>

ScanBrowser(f) ==
    LET ff == PathExists(f, firefox_cache)
        ch == PathExists(f, chrome_cache)
        browser_size ==
            (IF ff THEN calculate_dir_size(f, firefox_cache) ELSE 0)
            + (IF ch THEN calculate_dir_size(f, chrome_cache) ELSE 0)
        browser_count ==
            (IF ff THEN count_files_in_dir(f, firefox_cache) ELSE 0)
            + (IF ch THEN count_files_in_dir(f, chrome_cache) ELSE 0)
        browser_paths ==
            (IF ff THEN <<firefox_cache>> ELSE <<>>) \o (IF ch THEN <<chrome_cache>> ELSE <<>>)
    IN  IF browser_size > 0
          THEN <<CleanupItem("BrowserCache", browser_size, browser_count, browser_paths)>>
          ELSE <<>>

ScanTemp(f) ==
    IF PathExists(f, tmp)
      THEN LET size  == calculate_dir_size(f, tmp)
               count == count_files_in_dir(f, tmp)
           IN  IF count > 0 THEN <<CleanupItem("TempFiles", size, count, <<tmp>>)>> ELSE <<>>
      ELSE <<>>

\* Mutant: the temporary files come first.
scan_cleanable_items_temp_first(f) ==
    ScanTemp(f)
    \o ScanPath(f, "PackageCache", apt_cache)
    \o ScanPath(f, "Thumbnails", thumbnails)
    \o ScanPath(f, "Trash", trash_files)
    \o ScanPath(f, "Logs", journal_path)
    \o ScanBrowser(f)

\* Mutant: the old kernels are reported too.
scan_cleanable_items_with_kernels(f) ==
    ScanPath(f, "PackageCache", apt_cache)
    \o ScanPath(f, "Thumbnails", thumbnails)
    \o ScanPath(f, "Trash", trash_files)
    \o ScanPath(f, "Logs", journal_path)
    \o <<CleanupItem("OldKernels", 0, 0, <<>>)>>
    \o ScanBrowser(f)
    \o ScanTemp(f)

scan_cleanable_items(f) ==
    ScanPath(f, "PackageCache", apt_cache)
    \o ScanPath(f, "Thumbnails", thumbnails)
    \o ScanPath(f, "Trash", trash_files)
    \o ScanPath(f, "Logs", journal_path)
    \o ScanBrowser(f)
    \o ScanTemp(f)

(***************************************************************************)
(* The clean_* functions.  Each returns the filesystem it leaves and its   *)
(* Result.  What the operating system and the external commands do is the  *)
(* environment's choice, the outcome `o`:                                  *)
(*   o.cmd     "spawn_error"   pkexec could not be started                 *)
(*             "exit_failure"  it ran and exited with a failure status     *)
(*             "exit_success"  it ran and exited with status 0             *)
(*   o.first, o.second (the directories of the category, in order)         *)
(*             "absent"        exists() is false                           *)
(*             "ok"            remove_dir_all and create_dir_all succeed   *)
(*             "remove_fails"  remove_dir_all fails, nothing removed       *)
(*             "remove_fails_partway"  it fails after removing the files   *)
(*                             directly in the directory                   *)
(*             "create_fails"  remove_dir_all succeeds, create_dir_all     *)
(*                             fails                                       *)
(***************************************************************************)
RECURSIVE IsBelow(_, _, _)
IsBelow(f, n, p) ==
    /\ n # p
    /\ Present(f, n)
    /\ f[n].parent # Outside
    /\ (f[n].parent = p \/ IsBelow(f, f[n].parent, p))

Returned(f, r) == [fs |-> f, result |-> r]

\* fs::remove_dir_all(&p), succeeding.
RemoveDirAll(f, p) ==
    [n \in DOMAIN f |-> IF n = p \/ IsBelow(f, n, p) THEN NoEntry ELSE f[n]]

\* fs::remove_dir_all(&p), failing after the files directly in p are gone.
RemoveDirPartway(f, p) ==
    [n \in DOMAIN f |-> IF f[n].kind = "file" /\ f[n].parent = p THEN NoEntry ELSE f[n]]

\* fs::create_dir_all(&p), succeeding.
CreateDirAll(f, p) == [f EXCEPT ![p] = Entry("dir", Outside, 0, 0)]

\* remove_dir_all has to list every directory below p.
CanRemoveAll(f, p) ==
    /\ f[p].kind = "dir"
    /\ \A n \in DOMAIN f : IsBelow(f, n, p) => f[n].kind # "dir_noread"

DirOutcomes(f, p) ==
    IF ~PathExists(f, p) THEN {"absent"}
    ELSE IF CanRemoveAll(f, p)
      THEN {"ok", "remove_fails", "remove_fails_partway", "create_fails"}
    ELSE {"remove_fails", "remove_fails_partway"}

\* Mutant: the directory is removed and not made again.
ClearDirNoRecreate(f, p, o) ==
    IF ~PathExists(f, p) THEN Returned(f, "Ok")
    ELSE CASE o = "ok"                   -> Returned(RemoveDirAll(f, p), "Ok")
           [] o = "remove_fails"         -> Returned(f, "Err")
           [] o = "remove_fails_partway" -> Returned(RemoveDirPartway(f, p), "Err")
           [] o = "create_fails"         -> Returned(RemoveDirAll(f, p), "Err")

\* Mutant: a failure of remove_dir_all is not passed on.
ClearDirSwallowsError(f, p, o) ==
    IF ~PathExists(f, p) THEN Returned(f, "Ok")
    ELSE CASE o = "ok"                   -> Returned(CreateDirAll(RemoveDirAll(f, p), p), "Ok")
           [] o = "remove_fails"         -> Returned(f, "Ok")
           [] o = "remove_fails_partway" -> Returned(RemoveDirPartway(f, p), "Ok")
           [] o = "create_fails"         -> Returned(RemoveDirAll(f, p), "Err")

\* if p.exists() { fs::remove_dir_all(&p)?; fs::create_dir_all(&p)?; }
ClearDir(f, p, o) ==
    IF ~PathExists(f, p) THEN Returned(f, "Ok")
    ELSE CASE o = "ok"                   -> Returned(CreateDirAll(RemoveDirAll(f, p), p), "Ok")
           [] o = "remove_fails"         -> Returned(f, "Err")
           [] o = "remove_fails_partway" -> Returned(RemoveDirPartway(f, p), "Err")
           [] o = "create_fails"         -> Returned(RemoveDirAll(f, p), "Err")

\* Mutant: the second directory is cleared whatever became of the first.
ClearTwoKeepsGoing(f, p1, p2, o) ==
    LET r1 == ClearDir(f, p1, o.first)
        r2 == ClearDir(r1.fs, p2, "ok")
    IN  IF r1.result = "Err" THEN Returned(r2.fs, "Err") ELSE ClearDir(r1.fs, p2, o.second)

\* Two directories in a row: the `?` of the first returns before the second.
ClearTwo(f, p1, p2, o) ==
    LET r1 == ClearDir(f, p1, o.first)
    IN  IF r1.result = "Err" THEN r1 ELSE ClearDir(r1.fs, p2, o.second)

\* Command::new("pkexec").args(..).output()?; Ok(()): only a failed spawn is an Err.
CommandResult(o) == IF o.cmd = "spawn_error" THEN "Err" ELSE "Ok"

\* `apt-get clean`, when it succeeds, empties the archive directory.
clean_package_cache(f, o) ==
    IF o.cmd = "exit_success" /\ PathExists(f, apt_cache)
      THEN Returned(CreateDirAll(RemoveDirAll(f, apt_cache), apt_cache), CommandResult(o))
      ELSE Returned(f, CommandResult(o))

clean_thumbnails(f, o) == ClearDir(f, thumbnails, o.first)

empty_trash(f, o) == ClearTwo(f, trash_files, trash_info, o)

\* `journalctl --vacuum-time=7d` removes journal files by age, which entries do not
\* carry: the directory is left as it is.
clean_old_logs(f, o) == Returned(f, CommandResult(o))

clean_browser_cache(f, o) == ClearTwo(f, firefox_cache, chrome_cache, o)

\* `rm -rf /tmp/*` run without a shell: the argument is the literal name "/tmp/*".
clean_temp_files(f, o) == Returned(f, CommandResult(o))

clean_category(f, category, o) ==
    CASE category = "PackageCache" -> clean_package_cache(f, o)
      [] category = "Thumbnails"   -> clean_thumbnails(f, o)
      [] category = "Trash"        -> empty_trash(f, o)
      [] category = "Logs"         -> clean_old_logs(f, o)
      [] category = "BrowserCache" -> clean_browser_cache(f, o)
      [] category = "TempFiles"    -> clean_temp_files(f, o)
      [] category = "OldKernels"   -> Returned(f, CommandResult(o))

Outcome(c, a, b) == [cmd |-> c, first |-> a, second |-> b]

CommandOutcomes == {Outcome(c, "none", "none") : c \in {"spawn_error", "exit_failure", "exit_success"}}

\* The second directory is reached only when the first was absent or cleared.
TwoDirOutcomes(f, p1, p2) ==
    UNION {{Outcome("none", a, b) :
               b \in IF a \in {"absent", "ok"} THEN DirOutcomes(f, p2) ELSE {"none"}} :
           a \in DirOutcomes(f, p1)}

\* What can happen to a call of clean_category(category) on filesystem f.
Outcomes(f, category) ==
    CASE category = "Thumbnails" ->
             {Outcome("none", a, "none") : a \in DirOutcomes(f, thumbnails)}
      [] category = "Trash" -> TwoDirOutcomes(f, trash_files, trash_info)
      [] category = "BrowserCache" -> TwoDirOutcomes(f, firefox_cache, chrome_cache)
      [] OTHER -> CommandOutcomes

(***************************************************************************)
(* SpecCleaner: the library called directly.  The environment first sets   *)
(* up the filesystem, then scans and cleanups follow in any order.         *)
(***************************************************************************)
\* Neither the aggregators nor the cleaner nor its view have run; the catalogue
\* directories do not exist yet.
NoCalls ==
    /\ res = <<>>
    /\ dsz = NoSizes
    /\ walk = NoWalk
    /\ wret = NoRet
    /\ seen = [n \in TreeNodes |-> 0]
    /\ links = {}
    /\ steps = 0
    /\ phase = "env"
    /\ items = <<>>
    /\ rows = <<>>
    /\ log = <<>>
    /\ cleaned = 0
    /\ pre = <<>>
    /\ asked = [items |-> <<>>, rows |-> <<>>]
    /\ layout = "unset"

NothingRun == fs = [n \in CleanNodes |-> NoEntry] /\ NoCalls

InitCleaner == NothingRun /\ SysIdle /\ ToolsIdle

Existing(f) == {n \in DOMAIN f : Present(f, n)}

\* One of the catalogue directories comes into being.
MakeCatalogDir ==
    /\ phase = "env"
    /\ Cardinality(Existing(fs)) < MaxNodes
    /\ \E p \in CatalogPaths :
          /\ ~Present(fs, p)
          /\ fs' = [fs EXCEPT ![p] = Entry("dir", Outside, 0, 0)]
    /\ UNCHANGED <<toolVars, sysVars, aggVars, walkVars, cleanVars>>

\* A file (empty or not) or a directory comes into being below an existing
\* directory.  Ids are given in the order of the holding directories, so that one
\* filesystem is not set up under several numberings.
WriteBelow ==
    /\ phase = "env"
    /\ Cardinality(Existing(fs)) < MaxNodes
    /\ \E n \in BelowIds :
          /\ ~Present(fs, n)
          /\ \A m \in BelowIds : m < n => Present(fs, m)
          /\ \E d \in Existing(fs) :
                /\ fs[d].kind \in {"dir", "dir_noread"}
                /\ \A m \in BelowIds : m < n => fs[m].parent <= d
                /\ \/ \E s \in {0, MaxFileSize} : fs' = [fs EXCEPT ![n] = Entry("file", d, s, 0)]
                   \/ \E k \in {"dir", "dir_noread"} : fs' = [fs EXCEPT ![n] = Entry(k, d, 0, 0)]
    /\ UNCHANGED <<toolVars, sysVars, aggVars, walkVars, cleanVars>>

\* scan_cleanable_items()
ScanCall ==
    /\ items' = scan_cleanable_items(fs)
    /\ phase' = "scanned"
    /\ UNCHANGED <<toolVars, sysVars, fs, aggVars, walkVars, rows, log, cleaned, pre, asked, layout>>

\* clean_category(&category)
CleanCall ==
    /\ \E category \in CleanupCategory :
          \E o \in Outcomes(fs, category) :
             LET r == clean_category(fs, category, o)
             IN  /\ fs' = r.fs
                 /\ log' = <<[category |-> category, outcome |-> o, result |-> r.result]>>
    /\ pre' = fs
    /\ items' = <<>>
    /\ phase' = "cleaned"
    /\ UNCHANGED <<toolVars, sysVars, aggVars, walkVars, rows, cleaned, asked, layout>>

NextCleaner == MakeCatalogDir \/ WriteBelow \/ ScanCall \/ CleanCall

SpecCleaner == InitCleaner /\ [][NextCleaner]_vars

(***************************************************************************)
(* SpecBrowser: the two browser cache directories and what lies below      *)
(* them, then a scan.                                                      *)
(***************************************************************************)
InitBrowser == InitCleaner

\* A browser makes its cache directory.
CacheDirAppears ==
    /\ phase = "env"
    /\ \E p \in {firefox_cache, chrome_cache} :
          /\ ~Present(fs, p)
          /\ fs' = [fs EXCEPT ![p] = Entry("dir", Outside, 0, 0)]
    /\ UNCHANGED <<toolVars, sysVars, aggVars, walkVars, cleanVars>>

\* A browser writes a file (empty or not) or makes a directory in its cache; ids
\* are given in the order of the holding directories, as in WriteBelow.
CacheWritten ==
    /\ phase = "env"
    /\ \E n \in BelowIds :
          /\ ~Present(fs, n)
          /\ \A m \in BelowIds : m < n => Present(fs, m)
          /\ \E d \in Existing(fs) :
                /\ fs[d].kind \in {"dir", "dir_noread"}
                /\ \A m \in BelowIds : m < n => fs[m].parent <= d
                /\ \/ \E s \in {0, MaxFileSize} : fs' = [fs EXCEPT ![n] = Entry("file", d, s, 0)]
                   \/ \E k \in {"dir", "dir_noread"} : fs' = [fs EXCEPT ![n] = Entry(k, d, 0, 0)]
    /\ UNCHANGED <<toolVars, sysVars, aggVars, walkVars, cleanVars>>

NextBrowser == CacheDirAppears \/ CacheWritten \/ ScanCall

SpecBrowser == InitBrowser /\ [][NextBrowser]_vars

(***************************************************************************)
(* What a scan is expected to report, stated on the filesystem itself.     *)
(***************************************************************************)
\* The categories scan_cleanable_items looks for, and where.
ScanCatalogue == {"PackageCache", "Thumbnails", "Trash", "Logs", "BrowserCache", "TempFiles"}

CandidatePaths(c) ==
    CASE c = "PackageCache" -> {apt_cache}
      [] c = "Thumbnails"   -> {thumbnails}
      [] c = "Trash"        -> {trash_files}
      [] c = "Logs"         -> {journal_path}
      [] c = "BrowserCache" -> {firefox_cache, chrome_cache}
      [] c = "TempFiles"    -> {tmp}
      [] OTHER              -> {}

\* Every directory from p down to the one holding n can be listed.
RECURSIVE ListedBelow(_, _, _)
ListedBelow(f, n, p) ==
    /\ n # p
    /\ Present(f, n)
    /\ f[n].parent # Outside
    /\ f[f[n].parent].kind = "dir"
    /\ (f[n].parent = p \/ ListedBelow(f, f[n].parent, p))

\* The regular files under the candidate paths of c, at any depth.
FilesUnder(f, c) ==
    {n \in DOMAIN f : f[n].kind = "file" /\ \E p \in CandidatePaths(c) : ListedBelow(f, n, p)}

ItemsOf(c) == {i \in 1..Len(items) : items[i].category = c}

(***************************************************************************)
(* C6, as claimed: every item of a scan belongs to a category with a       *)
(* candidate path that exists and is not empty (temporary files: with a    *)
(* file count > 0); no category appears with an empty directory.           *)
(***************************************************************************)
C6_AsClaimed ==
    phase = "scanned" =>
        \A i \in 1..Len(items) :
            /\ \E p \in CandidatePaths(items[i].category) :
                  PathExists(fs, p) /\ Entries(fs, p) # {}
            /\ items[i].category = "TempFiles" => items[i].count > 0

(***************************************************************************)
(* C7, as claimed: a scan leaves out a category none of whose candidate    *)
(* paths exists, and reports a category whose paths hold at least one      *)
(* (readable) regular file, at any depth, with the sum of the sizes and    *)
(* the number of those files.                                              *)
(***************************************************************************)
C7_AsClaimed ==
    phase = "scanned" =>
        \A c \in ScanCatalogue :
            /\ (\A p \in CandidatePaths(c) : ~PathExists(fs, p)) => ItemsOf(c) = {}
            /\ FilesUnder(fs, c) # {} =>
                  \E i \in ItemsOf(c) :
                      /\ items[i].size = SumSizes(fs, FilesUnder(fs, c))
                      /\ items[i].count = Cardinality(FilesUnder(fs, c))

(***************************************************************************)
(* C8, as claimed: when the external command of a category runs and exits  *)
(* with a failure status, clean_category returns an error.                 *)
(***************************************************************************)
C8_AsClaimed ==
    \A i \in 1..Len(log) : log[i].outcome.cmd = "exit_failure" => log[i].result = "Err"

(***************************************************************************)
(* C10: after clean_thumbnails, empty_trash or clean_browser_cache has     *)
(* returned Ok, every directory of the category that existed before the    *)
(* call exists and is empty, and one that did not exist has not been made. *)
(***************************************************************************)
CleanTargets(c) ==
    CASE c = "Thumbnails"   -> {thumbnails}
      [] c = "Trash"        -> {trash_files, trash_info}
      [] c = "BrowserCache" -> {firefox_cache, chrome_cache}
      [] OTHER              -> {}

C10_DirectoryKeptAndEmptied ==
    (phase = "cleaned" /\ Len(log) = 1 /\ log[1].result = "Ok") =>
        \A p \in CleanTargets(log[1].category) :
            /\ Present(pre, p) =>
                  /\ fs[p].kind = "dir"
                  /\ \A n \in DOMAIN fs : ~IsBelow(fs, n, p)
            /\ ~Present(pre, p) => ~Present(fs, p)

\* The browser cache was cleaned: Firefox's directory held something, Chrome's did
\* not exist.
C10_Witness ==
    /\ phase = "cleaned" /\ Len(log) = 1
    /\ log[1].category = "BrowserCache" /\ log[1].result = "Ok"
    /\ \E n \in DOMAIN pre : IsBelow(pre, n, firefox_cache)
    /\ ~Present(pre, chrome_cache)
    /\ Present(fs, firefox_cache)

(***************************************************************************)
(* SystemCleanerView.  A row of the list box is the title it shows, the    *)
(* state of the check button made for it ("active", "inactive", or "none"  *)
(* for a row made without one, as the `No cleanable items found` row), and *)
(* the widgets that are the row's own children, first to last.  Whether    *)
(* the button handed to add_prefix is among them is the library's doing:   *)
(* `layout`.                                                               *)
(***************************************************************************)
Row(t, c, w) == [title |-> t, check |-> c, children |-> w]

\* row.add_prefix(&check)
AddPrefix(lay) == IF lay = "direct" THEN <<"CheckButton", "Box">> ELSE <<"Box">>

\* create_cleanup_row: the category as title, a check button set active and added
\* as prefix.
create_cleanup_row(item, lay) == Row(item.category, "active", AddPrefix(lay))

\* scan_items: the stored items are replaced, the list box is filled again.
scan_items(f, lay) ==
    LET scanned_items == scan_cleanable_items(f)
    IN  [items |-> scanned_items,
         rows  |-> IF scanned_items = <<>>
                     THEN <<Row("No cleanable items found", "none", <<"Box">>)>>
                     ELSE [i \in 1..Len(scanned_items) |->
                              create_cleanup_row(scanned_items[i], lay)]]

\* clean_selected, inner loop: row.first_child(), next_sibling(), .. up to the first
\* widget that is a CheckButton; its state, or "none" when the children run out.
RECURSIVE FindCheck(_, _)
FindCheck(row, current_child) ==
    IF current_child > Len(row.children) THEN "none"
    ELSE IF row.children[current_child] = "CheckButton" THEN row.check
    ELSE FindCheck(row, current_child + 1)

\* clean_selected, first loop: the children of the list box in order, `index`
\* counting those met while index < items.len().
RECURSIVE CollectToClean(_, _, _, _, _)
CollectToClean(its, rws, child, index, to_clean) ==
    IF child > Len(rws) THEN to_clean
    ELSE IF index < Len(its)
      THEN CollectToClean(its, rws, child + 1, index + 1,
                          IF FindCheck(rws[child], 1) = "active"
                            THEN Append(to_clean, its[index + 1])
                            ELSE to_clean)
    ELSE CollectToClean(its, rws, child + 1, index, to_clean)

Ran(f, lg, n) == [fs |-> f, log |-> lg, cleaned_count |-> n]

\* What the view can tell of a call: the category and the Result.
Called(category, o, r) == [category |-> category, result |-> r]

\* clean_selected, second loop: `for item in to_clean`, for every course the calls
\* can take: the filesystem left, the calls made, the count returned.
RECURSIVE CleanLoop(_, _, _, _)
CleanLoop(f, to_clean, lg, cleaned_count) ==
    IF to_clean = <<>> THEN {Ran(f, lg, cleaned_count)}
    ELSE LET category == Head(to_clean).category
         IN  UNION {LET r == clean_category(f, category, o)
                    IN  IF r.result = "Err"
                          THEN CleanLoop(r.fs, Tail(to_clean),
                                         Append(lg, Called(category, o, "Err")),
                                         cleaned_count)
                          ELSE CleanLoop(r.fs, Tail(to_clean),
                                         Append(lg, Called(category, o, "Ok")),
                                         cleaned_count + 1) :
                    o \in Outcomes(f, category)}

clean_selected(f, its, rws) == CleanLoop(f, CollectToClean(its, rws, 1, 0, <<>>), <<>>, 0)

InitUI == InitCleaner

\* SystemCleanerView::new(): the initial scan.
ViewNew ==
    /\ phase = "env"
    /\ phase' = "view"
    /\ \E lay \in {"direct", "nested"} :
          /\ layout' = lay
          /\ LET s == scan_items(fs, lay) IN items' = s.items /\ rows' = s.rows
    /\ UNCHANGED <<toolVars, sysVars, fs, aggVars, walkVars, log, cleaned, pre, asked>>

\* The user clicks a check button.
ToggleCheck ==
    /\ phase = "view"
    /\ \E i \in 1..Len(rows) :
          /\ rows[i].check # "none"
          /\ rows' = [rows EXCEPT ![i].check = IF @ = "active" THEN "inactive" ELSE "active"]
    /\ UNCHANGED <<toolVars, sysVars, fs, aggVars, walkVars, phase, items, log, cleaned, pre, asked, layout>>

\* The Scan button's handler.
ScanClicked ==
    /\ phase = "view"
    /\ LET s == scan_items(fs, layout) IN items' = s.items /\ rows' = s.rows
    /\ UNCHANGED <<toolVars, sysVars, fs, aggVars, walkVars, phase, log, cleaned, pre, asked, layout>>

\* The Clean Selected button's handler: clean_selected, then the rescan.
CleanClicked ==
    /\ phase = "view"
    /\ \E ran \in clean_selected(fs, items, rows) :
          /\ log' = ran.log
          /\ cleaned' = ran.cleaned_count
          /\ fs' = ran.fs
          /\ LET s == scan_items(ran.fs, layout) IN items' = s.items /\ rows' = s.rows
    /\ asked' = [items |-> items, rows |-> rows]
    /\ UNCHANGED <<toolVars, sysVars, aggVars, walkVars, phase, pre, layout>>

NextUI == MakeCatalogDir \/ WriteBelow \/ ViewNew \/ ToggleCheck \/ ScanClicked \/ CleanClicked

SpecUI == InitUI /\ [][NextUI]_vars

(***************************************************************************)
(* C9, as claimed: clean_selected calls clean_category exactly once for    *)
(* every selected category, in scan order, whether or not an earlier one   *)
(* failed, and returns the number of calls that returned Ok.               *)
(***************************************************************************)
\* The items whose row had its check button active when the request began.
Selected == {i \in 1..Len(asked.items) : asked.rows[i].check = "active"}

C9_AsClaimed ==
    phase = "view" =>
        /\ Len(log) = Cardinality(Selected)
        /\ \A i \in Selected :
              log[Cardinality({j \in Selected : j <= i})].category = asked.items[i].category
        /\ \A k, l \in 1..Len(log) : log[k].category = log[l].category => k = l
        /\ cleaned = Cardinality({k \in 1..Len(log) : log[k].result = "Ok"})

(***************************************************************************)
(* The mount enumerator.  u64 values are kept to WordBits bits; a product  *)
(* or a difference that leaves the range panics in a build with overflow   *)
(* checks and wraps in one without.                                        *)
(***************************************************************************)
Modulus == 2 ^ WordBits

U64 == 0..(Modulus - 1)

\* a * b on u64: the wrapped value, and whether it overflowed.
WrappingMul(a, b) == [value |-> (a * b) % Modulus, overflow |-> a * b >= Modulus]

\* a - b on u64.
WrappingSub(a, b) == [value |-> (a - b) % Modulus, overflow |-> a < b]

\* char::is_whitespace, on the characters a mount table holds.
IsWhitespace(c) == c \in {" ", "\t", "\n"}

\* str::split_whitespace().collect(): the maximal runs of other characters.
RECURSIVE SplitFrom(_, _, _, _)
SplitFrom(line, i, word, parts) ==
    IF i > Len(line) THEN (IF word = "" THEN parts ELSE Append(parts, word))
    ELSE LET c == SubSeq(line, i, i)
         IN  IF IsWhitespace(c)
               THEN SplitFrom(line, i + 1, "", IF word = "" THEN parts ELSE Append(parts, word))
               ELSE SplitFrom(line, i + 1, word \o c, parts)

split_whitespace(line) == SplitFrom(line, 1, "", <<>>)

\* str::lines(): the pieces ended by "\n"; a last piece without one counts if it is
\* not empty.
RECURSIVE LinesFrom(_, _, _, _)
LinesFrom(contents, i, line, out) ==
    IF i > Len(contents) THEN (IF line = "" THEN out ELSE Append(out, line))
    ELSE LET c == SubSeq(contents, i, i)
         IN  IF c = "\n"
               THEN LinesFrom(contents, i + 1, "", Append(out, line))
               ELSE LinesFrom(contents, i + 1, line \o c, out)

lines(contents) == LinesFrom(contents, 1, "", <<>>)

\* str::starts_with
starts_with(s, prefix) ==
    /\ Len(s) >= Len(prefix)
    /\ SubSeq(s, 1, Len(prefix)) = prefix

\* Mutant: only the type "fuse" itself is taken for FUSE.
SkipVirtualExactFuse(fs_type) ==
    \/ fs_type = "fuse"
    \/ fs_type = "tmpfs"
    \/ fs_type = "devtmpfs"
    \/ fs_type = "proc"
    \/ fs_type = "sysfs"
    \/ fs_type = "cgroup"
    \/ fs_type = "devpts"

\* The test of `// Skip virtual filesystems`.
SkipVirtual(fs_type) ==
    \/ starts_with(fs_type, "fuse")
    \/ fs_type = "tmpfs"
    \/ fs_type = "devtmpfs"
    \/ fs_type = "proc"
    \/ fs_type = "sysfs"
    \/ fs_type = "cgroup"
    \/ fs_type = "devpts"

MountPoint(device, mount_point, fs_type, total, used, available) ==
    [device |-> device, mount_point |-> mount_point, fs_type |-> fs_type,
     total |-> total, used |-> used, available |-> available]

\* Lines 90-93: the three byte counts, and whether any operation overflowed.
Capacity(stat) ==
    LET block_size == stat.block_size
        total      == WrappingMul(stat.blocks, block_size)
        available  == WrappingMul(stat.blocks_available, block_size)
        free       == WrappingMul(stat.blocks_free, block_size)
        used       == WrappingSub(total.value, free.value)
    IN  [total |-> total.value, available |-> available.value, used |-> used.value,
         overflow |-> total.overflow \/ available.overflow \/ free.overflow \/ used.overflow]

Finished(r, v) == [result |-> r, value |-> v]

\* Mutant: a failed capacity query ends the enumeration.
RECURSIVE MountLoopStops(_, _, _, _, _)
MountLoopStops(ls, stats, k, acc, overflow_checks) ==
    IF k > Len(ls) THEN Finished("Ok", acc)
    ELSE LET parts == split_whitespace(ls[k])
         IN  IF Len(parts) < 3 THEN MountLoopStops(ls, stats, k + 1, acc, overflow_checks)
             ELSE IF SkipVirtual(parts[3])
               THEN MountLoopStops(ls, stats, k + 1, acc, overflow_checks)
             ELSE IF ~StatOk(stats[parts[2]]) THEN Finished("Ok", acc)
             ELSE LET c == Capacity(stats[parts[2]])
                  IN  IF c.overflow /\ overflow_checks THEN Finished("panic", <<>>)
                      ELSE MountLoopStops(ls, stats, k + 1,
                               Append(acc, MountPoint(parts[1], parts[2], parts[3],
                                                      c.total, c.used, c.available)),
                               overflow_checks)

\* `for line in contents.lines()`: stats[p] is what statvfs(p) answers.
RECURSIVE MountLoop(_, _, _, _, _)
MountLoop(ls, stats, k, acc, overflow_checks) ==
    IF k > Len(ls) THEN Finished("Ok", acc)
    ELSE LET parts == split_whitespace(ls[k])
         IN  IF Len(parts) < 3 THEN MountLoop(ls, stats, k + 1, acc, overflow_checks)
             ELSE IF SkipVirtual(parts[3]) THEN MountLoop(ls, stats, k + 1, acc, overflow_checks)
             ELSE IF ~StatOk(stats[parts[2]]) THEN MountLoop(ls, stats, k + 1, acc, overflow_checks)
             ELSE LET c == Capacity(stats[parts[2]])
                  IN  IF c.overflow /\ overflow_checks THEN Finished("panic", <<>>)
                      ELSE MountLoop(ls, stats, k + 1,
                               Append(acc, MountPoint(parts[1], parts[2], parts[3],
                                                      c.total, c.used, c.available)),
                               overflow_checks)

get_mount_points(table, stats, overflow_checks) ==
    IF table.readable
      THEN MountLoop(lines(table.contents), stats, 1, <<>>, overflow_checks)
      ELSE Finished("Ok", <<>>)

\* MountPoint::used_percentage, as the fraction num / den (f64 holds the byte counts
\* of the model exactly).
Fraction(n, d) == [num |-> n, den |-> d]

used_percentage(m) ==
    IF m.total = 0 THEN Fraction(0, 1) ELSE Fraction(m.used * 100, m.total)

(***************************************************************************)
(* SpecMounts: a mount table comes into being line by line, the network    *)
(* mount may go stale, the table may become unreadable; then               *)
(* get_mount_points is called.                                             *)
(***************************************************************************)
FsTypes ==
    {"ext4", "tmpfs", "devtmpfs", "proc", "sysfs", "cgroup", "cgroup2", "devpts",
     "fuse", "fuseblk", "fus"}

\* The lines a table is made of: two disks, two virtual filesystems, two mounts on
\* "/mnt" (one written with tabs), a line of two fields and an empty line.
TableLines ==
    {"d / ext4 rw", "e / xfs rw", "d / tmpfs rw", "d / fuseblk rw",
     "srv /mnt nfs", "d\t/mnt\text4\trw", "none /mnt", ""}

TableLength == Len(lines(mtab.contents))

InitMounts == InitCleaner

\* A line is written to the mount table.
MountAdded ==
    /\ mounts.result = "none"
    /\ mtab.readable
    /\ TableLength < MaxLines
    /\ \E l \in TableLines : mtab' = [mtab EXCEPT !.contents = @ \o l \o "\n"]
    /\ UNCHANGED <<toolVars, fs, aggVars, walkVars, cleanVars, statfs, mounts, sysfs, sensors, probe>>

\* The server behind /mnt stops answering: statvfs("/mnt") fails from now on.
MountGoesStale ==
    /\ mounts.result = "none"
    /\ StatOk(statfs["/mnt"])
    /\ statfs' = [statfs EXCEPT !["/mnt"] = StatErr]
    /\ UNCHANGED <<toolVars, fs, aggVars, walkVars, cleanVars, mtab, mounts, sysfs, sensors, probe>>

\* /proc is not mounted (a chroot, a container): read_to_string fails.
TableUnreadable ==
    /\ mounts.result = "none"
    /\ mtab.readable
    /\ mtab' = [readable |-> FALSE, contents |-> ""]
    /\ UNCHANGED <<toolVars, fs, aggVars, walkVars, cleanVars, statfs, mounts, sysfs, sensors, probe>>

\* get_mount_points(), in a build with or without overflow checks.
GetMountPoints ==
    /\ \E overflow_checks \in BOOLEAN :
          mounts' = get_mount_points(mtab, statfs, overflow_checks)
    /\ UNCHANGED <<toolVars, fs, aggVars, walkVars, cleanVars, mtab, statfs, sysfs, sensors, probe>>

NextMounts == MountAdded \/ MountGoesStale \/ TableUnreadable \/ GetMountPoints

SpecMounts == InitMounts /\ [][NextMounts]_vars

(***************************************************************************)
(* SpecOneMount: a table of one line, of any type, for whose mount point   *)
(* statvfs answers with any numbers (a network or virtual filesystem       *)
(* passes on what its server says), or fails.                              *)
(***************************************************************************)
MountLines ==
    {"d / " \o t \o " rw" : t \in FsTypes} \cup TableLines

BlockSizes == {1, 2, Modulus \div 2}

BlockCounts == 0..MaxBlocks

InitOneMount ==
    /\ NothingRun
    /\ ToolsIdle
    /\ \E l \in MountLines : mtab = [readable |-> TRUE, contents |-> l \o "\n"]
    /\ \E st \in {StatErr} \cup {Statvfs(bs, b, f, a) :
                     bs \in BlockSizes, b \in BlockCounts, f \in BlockCounts, a \in BlockCounts} :
          statfs = [p \in MountPaths |-> st]
    /\ mounts = NotCalled
    /\ sysfs = [thermal |-> [readable |-> TRUE, entries |-> <<>>],
                hwmon   |-> [readable |-> TRUE, entries |-> <<>>]]
    /\ sensors = NotCalled
    /\ probe = [celsius |-> 0, status |-> "none"]

NextOneMount == GetMountPoints

SpecOneMount == InitOneMount /\ [][NextOneMount]_vars

(***************************************************************************)
(* The temperature collector.  A file of /sys is absent, unreadable, or    *)
(* holds a text.                                                           *)
(***************************************************************************)
Absent == [state |-> "absent", text |-> ""]

Unreadable == [state |-> "unreadable", text |-> ""]

Holding(text) == [state |-> "text", text |-> text]

\* Path::exists()
FileExists(file) == file.state # "absent"

\* fs::read_to_string(..).is_ok()
ReadOk(file) == file.state = "text"

\* str::trim(): leading and trailing whitespace removed.
RECURSIVE TrimStart(_)
TrimStart(s) ==
    IF s # "" /\ IsWhitespace(SubSeq(s, 1, 1)) THEN TrimStart(SubSeq(s, 2, Len(s))) ELSE s

RECURSIVE TrimEnd(_)
TrimEnd(s) ==
    IF s # "" /\ IsWhitespace(SubSeq(s, Len(s), Len(s)))
      THEN TrimEnd(SubSeq(s, 1, Len(s) - 1))
      ELSE s

trim(s) == TrimEnd(TrimStart(s))

Digits == <<"0", "1", "2", "3", "4", "5", "6", "7", "8", "9">>

IsDigit(c) == \E d \in 1..10 : Digits[d] = c

DigitValue(c) == (CHOOSE d \in 1..10 : Digits[d] = c) - 1

I32Max == 2147483647

ParseErr == [ok |-> FALSE, value |-> 0]

Parsed(v) == [ok |-> TRUE, value |-> v]

\* The digits of s from position i on, accumulated into acc towards the sign's
\* side; an Err on a character that is no digit or on leaving the i32 range.  (The
\* one value i32 has below -I32Max is taken for out of range.)
RECURSIVE ParseDigits(_, _, _)
ParseDigits(s, i, acc) ==
    IF i > Len(s) THEN Parsed(acc)
    ELSE LET c == SubSeq(s, i, i)
         IN  IF ~IsDigit(c) THEN ParseErr
             ELSE IF acc > (I32Max - DigitValue(c)) \div 10 THEN ParseErr
             ELSE ParseDigits(s, i + 1, acc * 10 + DigitValue(c))

\* str::parse::<i32>(): an optional sign, then at least one digit and only digits.
ParseI32(s) ==
    LET signed == s # "" /\ SubSeq(s, 1, 1) \in {"+", "-"}
        digits == IF signed THEN SubSeq(s, 2, Len(s)) ELSE s
        magnitude == ParseDigits(digits, 1, 0)
    IN  IF digits = "" THEN ParseErr
        ELSE IF ~magnitude.ok THEN ParseErr
        ELSE IF signed /\ SubSeq(s, 1, 1) = "-" THEN Parsed(0 - magnitude.value)
        ELSE magnitude

(***************************************************************************)
(* f32.  A temperature is kept as the integer t for the f32 value          *)
(* t * 2^-23: exact for 0 and for every f32 of magnitude from 1 up to 128, *)
(* the range of the readings below.  NaN stands for a value that is no     *)
(* number, and is kept as an integer outside that range.                   *)
(***************************************************************************)
F32One == 2 ^ 23

NaN == 0 - I32Max

\* The exponent e with 2^e <= q < 2^(e+1), for q >= 1.
RECURSIVE Log2(_)
Log2(q) == IF q < 2 THEN 0 ELSE 1 + Log2(q \div 2)

\* k more binary digits of r / d after the point: the digits as a number, and what
\* is left of r.
RECURSIVE FractionBits(_, _, _, _)
FractionBits(r, d, k, bits) ==
    IF k = 0 THEN [bits |-> bits, rest |-> r]
    ELSE IF 2 * r >= d THEN FractionBits(2 * r - d, d, k - 1, 2 * bits + 1)
    ELSE FractionBits(2 * r, d, k - 1, 2 * bits)

\* a / 1000.0 for an f32 a that holds the integer a > 0 exactly: the quotient
\* rounded to 24 significant bits, ties to even.
F32DivThousand(a) ==
    LET q    == a \div 1000
        e    == Log2(q)
        k    == 23 - e
        frac == FractionBits(a % 1000, 1000, k, 0)
        mant == q * (2 ^ k) + frac.bits
        up   == 2 * frac.rest > 1000 \/ (2 * frac.rest = 1000 /\ mant % 2 = 1)
    IN  (IF up THEN mant + 1 ELSE mant) * (2 ^ e)

\* temp_millidegrees as f32 / 1000.0
MilliToCelsius(temp_millidegrees) ==
    IF temp_millidegrees = 0 THEN 0
    ELSE IF temp_millidegrees > 0 THEN F32DivThousand(temp_millidegrees)
    ELSE 0 - F32DivThousand(0 - temp_millidegrees)

\* 0.1 as f32 is 13421773 * 2^-27.
TenthMantissa == 13421773

Abs(x) == IF x < 0 THEN 0 - x ELSE x

\* (a - b).abs() < 0.1 on f32: a difference below 2^24 units is exact.
WithinTenth(a, b) ==
    /\ Abs(a - b) < 2 ^ 24
    /\ 16 * Abs(a - b) < TenthMantissa

\* f32::partial_cmp: None when either side is NaN.
partial_cmp(a, b) ==
    IF a = NaN \/ b = NaN THEN "None"
    ELSE IF a < b THEN "Less"
    ELSE IF a > b THEN "Greater"
    ELSE "Equal"

TemperatureSensor(name, temperature, label) ==
    [name |-> name, temperature |-> temperature, label |-> label]

\* An entry of /sys/class/thermal: its name, what is_dir() says of it, its `temp`
\* and `type` files.
ThermalEntry(file_name, is_dir, temp, type) ==
    [file_name |-> file_name, is_dir |-> is_dir, temp |-> temp, type |-> type]

\* An entry of /sys/class/hwmon: its `name` file, and its temp<i>_input and
\* temp<i>_label files by index (an index outside the domain: no such file).
HwmonEntry(file_name, is_dir, name, inputs, labels) ==
    [file_name |-> file_name, is_dir |-> is_dir, name |-> name,
     inputs |-> inputs, labels |-> labels]

\* path.join(format!("temp{}_input", i))
TempInput(chip, i) == IF i \in DOMAIN chip.inputs THEN chip.inputs[i] ELSE Absent

\* path.join(format!("temp{}_label", i))
TempLabel(chip, i) == IF i \in DOMAIN chip.labels THEN chip.labels[i] ELSE Absent

\* fs::read_to_string(file).unwrap_or_else(|_| fallback).trim().to_string()
ReadOrElse(file, fallback) == trim(IF ReadOk(file) THEN file.text ELSE fallback)

\* `for entry in entries.flatten()` over /sys/class/thermal.
RECURSIVE ThermalLoop(_, _, _)
ThermalLoop(entries, k, acc) ==
    IF k > Len(entries) THEN acc
    ELSE LET entry == entries[k]
             temp_millidegrees == ParseI32(trim(entry.temp.text))
         IN  IF /\ entry.is_dir
                /\ starts_with(entry.file_name, "thermal_zone")
                /\ ReadOk(entry.temp)
                /\ temp_millidegrees.ok
               THEN ThermalLoop(entries, k + 1,
                        Append(acc, TemperatureSensor(
                                        entry.file_name,
                                        MilliToCelsius(temp_millidegrees.value),
                                        ReadOrElse(entry.type, entry.file_name))))
               ELSE ThermalLoop(entries, k + 1, acc)

ProbeStart == 1

ProbeEnd == 20

\* Mutant: the first missing input ends the probing of a chip.
RECURSIVE ProbeLoopStops(_, _, _)
ProbeLoopStops(entry, i, acc) ==
    IF i >= ProbeEnd THEN acc
    ELSE LET temp_input == TempInput(entry, i)
             temp_millidegrees == ParseI32(trim(temp_input.text))
             label == IF FileExists(TempLabel(entry, i))
                        THEN ReadOrElse(TempLabel(entry, i), "Sensor " \o ToString(i))
                        ELSE "Sensor " \o ToString(i)
             name == ReadOrElse(entry.name, entry.file_name)
         IN  IF ~FileExists(temp_input) THEN acc
             ELSE IF ReadOk(temp_input) /\ temp_millidegrees.ok
               THEN ProbeLoopStops(entry, i + 1,
                        Append(acc, TemperatureSensor(
                                        name \o " - " \o label,
                                        MilliToCelsius(temp_millidegrees.value),
                                        label)))
               ELSE ProbeLoopStops(entry, i + 1, acc)

\* `for i in 1..20` over the inputs of one chip.
RECURSIVE ProbeLoop(_, _, _)
ProbeLoop(entry, i, acc) ==
    IF i >= ProbeEnd THEN acc
    ELSE LET temp_input == TempInput(entry, i)
             temp_millidegrees == ParseI32(trim(temp_input.text))
             label == IF FileExists(TempLabel(entry, i))
                        THEN ReadOrElse(TempLabel(entry, i), "Sensor " \o ToString(i))
                        ELSE "Sensor " \o ToString(i)
             name == ReadOrElse(entry.name, entry.file_name)
         IN  IF FileExists(temp_input) /\ ReadOk(temp_input) /\ temp_millidegrees.ok
               THEN ProbeLoop(entry, i + 1,
                        Append(acc, TemperatureSensor(
                                        name \o " - " \o label,
                                        MilliToCelsius(temp_millidegrees.value),
                                        label)))
               ELSE ProbeLoop(entry, i + 1, acc)

\* `for entry in entries.flatten()` over /sys/class/hwmon.
RECURSIVE HwmonLoop(_, _, _)
HwmonLoop(entries, k, acc) ==
    IF k > Len(entries) THEN acc
    ELSE IF entries[k].is_dir
      THEN HwmonLoop(entries, k + 1, ProbeLoop(entries[k], ProbeStart, acc))
    ELSE HwmonLoop(entries, k + 1, acc)

\* Mutant: the comparison the other way round.
ColdestFirst(a, b) == partial_cmp(a.temperature, b.temperature)

\* The comparison handed to sort_by: b.temperature.partial_cmp(&a.temperature).
HottestFirst(a, b) == partial_cmp(b.temperature, a.temperature)

\* x put into a sequence already in order, behind everything that does not come
\* after it (sort_by is stable).
RECURSIVE InsertSorted(_, _, _)
InsertSorted(sorted, x, k) ==
    IF k > Len(sorted) THEN Append(sorted, x)
    ELSE IF HottestFirst(sorted[k], x) = "Greater"
      THEN SubSeq(sorted, 1, k - 1) \o <<x>> \o SubSeq(sorted, k, Len(sorted))
    ELSE InsertSorted(sorted, x, k + 1)

RECURSIVE SortFrom(_, _, _)
SortFrom(v, k, sorted) ==
    IF k > Len(v) THEN sorted ELSE SortFrom(v, k + 1, InsertSorted(sorted, v[k], 1))

\* sensors.sort_by(..unwrap()): with two or more elements every one is compared,
\* and a comparison that is None panics.
sort_by(v) ==
    IF Len(v) >= 2 /\ \E i \in 1..Len(v) : v[i].temperature = NaN
      THEN Finished("panic", <<>>)
      ELSE Finished("Ok", SortFrom(v, 1, <<>>))

\* Mutant: the labels are not compared.
SameBucketAnyLabel(a, b) ==
    /\ a.temperature # NaN /\ b.temperature # NaN
    /\ WithinTenth(a.temperature, b.temperature)

\* The closure handed to dedup_by.
SameBucket(a, b) ==
    /\ a.temperature # NaN /\ b.temperature # NaN
    /\ WithinTenth(a.temperature, b.temperature)
    /\ a.label = b.label

\* Mutant: the pass ends with the first element it drops.
RECURSIVE DedupFirstOnly(_, _, _)
DedupFirstOnly(v, k, kept) ==
    IF k > Len(v) THEN kept
    ELSE IF kept # <<>> /\ SameBucket(v[k], kept[Len(kept)])
      THEN kept \o SubSeq(v, k + 1, Len(v))
    ELSE DedupFirstOnly(v, k + 1, Append(kept, v[k]))

\* Vec::dedup_by: an element is dropped when the closure holds of it and of the
\* last element kept.
RECURSIVE DedupFrom(_, _, _)
DedupFrom(v, k, kept) ==
    IF k > Len(v) THEN kept
    ELSE IF kept # <<>> /\ SameBucket(v[k], kept[Len(kept)]) THEN DedupFrom(v, k + 1, kept)
    ELSE DedupFrom(v, k + 1, Append(kept, v[k]))

dedup_by(v) == DedupFrom(v, 1, <<>>)

\* What get_temperatures has collected before it sorts.
Collected(sys) ==
    LET zones == IF sys.thermal.readable THEN ThermalLoop(sys.thermal.entries, 1, <<>>) ELSE <<>>
    IN  IF sys.hwmon.readable THEN HwmonLoop(sys.hwmon.entries, 1, zones) ELSE zones

get_temperatures(sys) ==
    LET sorted == sort_by(Collected(sys))
    IN  IF sorted.result = "Ok" THEN Finished("Ok", dedup_by(sorted.value)) ELSE sorted

\* The f32 of a whole number of degrees.
F32(whole) == whole * F32One

\* Mutant: the thresholds belong to the class below.
temperature_status_inclusive(celsius) ==
    IF celsius <= F32(50) THEN "Normal"
    ELSE IF celsius <= F32(70) THEN "Warm"
    ELSE IF celsius <= F32(85) THEN "Hot"
    ELSE "Critical"

temperature_status(celsius) ==
    IF celsius < F32(50) THEN "Normal"
    ELSE IF celsius < F32(70) THEN "Warm"
    ELSE IF celsius < F32(85) THEN "Hot"
    ELSE "Critical"

(***************************************************************************)
(* SpecTemps: thermal zones and chips with one input come into being, a    *)
(* directory may be missing; then get_temperatures is called.              *)
(***************************************************************************)
ZoneTexts == {"50000\n", "49940\n", "49900\n", "49880"}

\* What a new entry of /sys/class/thermal can be, but for its number: a zone with a
\* reading and with or without a type, a zone whose reading is no number, a zone
\* without a `temp` file, an entry that is no directory.
ZoneKinds ==
    {ThermalEntry("thermal_zone", TRUE, Holding(t), ty) :
        t \in ZoneTexts, ty \in {Absent, Holding("cpu\n")}}
    \cup {ThermalEntry("thermal_zone", TRUE, Holding("abc\n"), Absent),
          ThermalEntry("thermal_zone", TRUE, Absent, Absent),
          ThermalEntry("thermal_zone", FALSE, Holding("50000\n"), Absent),
          ThermalEntry("cooling_device", TRUE, Holding("50000\n"), Absent)}

\* A chip with the one input temp1_input.
ChipKinds ==
    {HwmonEntry("hwmon", TRUE, Holding("k10temp\n"), 1 :> Holding(t), 1 :> l) :
        t \in {"50000\n", "49940\n"}, l \in {Absent, Holding("cpu\n")}}

Numbered(entry, n) == [entry EXCEPT !.file_name = @ \o ToString(n)]

SysEntries == Len(sysfs.thermal.entries) + Len(sysfs.hwmon.entries)

InitTemps == InitCleaner

ZoneAppears ==
    /\ sensors.result = "none"
    /\ sysfs.thermal.readable
    /\ SysEntries < MaxSensors
    /\ \E z \in ZoneKinds :
          sysfs' = [sysfs EXCEPT !.thermal.entries =
                       Append(@, Numbered(z, Len(sysfs.thermal.entries)))]
    /\ UNCHANGED <<toolVars, fs, aggVars, walkVars, cleanVars, mtab, statfs, mounts, sensors, probe>>

ChipAppears ==
    /\ sensors.result = "none"
    /\ sysfs.hwmon.readable
    /\ SysEntries < MaxSensors
    /\ \E c \in ChipKinds :
          sysfs' = [sysfs EXCEPT !.hwmon.entries =
                       Append(@, Numbered(c, Len(sysfs.hwmon.entries)))]
    /\ UNCHANGED <<toolVars, fs, aggVars, walkVars, cleanVars, mtab, statfs, mounts, sensors, probe>>

\* The machine has no /sys/class/thermal: read_dir fails.
ThermalMissing ==
    /\ sensors.result = "none"
    /\ sysfs.thermal = [readable |-> TRUE, entries |-> <<>>]
    /\ sysfs' = [sysfs EXCEPT !.thermal.readable = FALSE]
    /\ UNCHANGED <<toolVars, fs, aggVars, walkVars, cleanVars, mtab, statfs, mounts, sensors, probe>>

\* The machine has no /sys/class/hwmon.
HwmonMissing ==
    /\ sensors.result = "none"
    /\ sysfs.hwmon = [readable |-> TRUE, entries |-> <<>>]
    /\ sysfs' = [sysfs EXCEPT !.hwmon.readable = FALSE]
    /\ UNCHANGED <<toolVars, fs, aggVars, walkVars, cleanVars, mtab, statfs, mounts, sensors, probe>>

\* SystemInfo::get_temperatures()
GetTemperatures ==
    /\ sensors' = get_temperatures(sysfs)
    /\ UNCHANGED <<toolVars, fs, aggVars, walkVars, cleanVars, mtab, statfs, mounts, sysfs, probe>>

NextTemps == ZoneAppears \/ ChipAppears \/ ThermalMissing \/ HwmonMissing \/ GetTemperatures

SpecTemps == InitTemps /\ [][NextTemps]_vars

(***************************************************************************)
(* SpecHwmon: two chips, one with a name file and one without, and an      *)
(* entry of /sys/class/hwmon that is no directory; input files come into   *)
(* being at indices inside and outside the probed range.                   *)
(***************************************************************************)
InputIndices == {0, ProbeStart, ProbeEnd - 1, ProbeEnd}

NoFiles == [i \in {} |-> Absent]

\* An input file and its label file: a reading with or without a label, a second
\* reading, a text that is no number.
InputKinds ==
    {[input |-> Holding("50000\n"), label |-> Absent],
     [input |-> Holding("50000\n"), label |-> Holding("cpu\n")],
     [input |-> Holding(" 70000\n"), label |-> Unreadable],
     [input |-> Holding("7e4\n"), label |-> Absent]}

InitHwmon ==
    /\ NothingRun
    /\ ToolsIdle
    /\ mtab = [readable |-> TRUE, contents |-> ""]
    /\ statfs = [p \in MountPaths |-> IF p = "/" THEN DiskA ELSE DiskB]
    /\ mounts = NotCalled
    /\ sysfs = [thermal |-> [readable |-> TRUE, entries |-> <<>>],
                hwmon   |-> [readable |-> TRUE,
                             entries |->
                                <<HwmonEntry("hwmon0", TRUE, Holding("k10temp\n"), NoFiles, NoFiles),
                                  HwmonEntry("hwmon1", TRUE, Absent, NoFiles, NoFiles),
                                  HwmonEntry("hwmon2", FALSE, Absent,
                                             1 :> Holding("50000\n"), NoFiles)>>]]
    /\ sensors = NotCalled
    /\ probe = [celsius |-> 0, status |-> "none"]

InputCount ==
    Cardinality({<<c, i>> \in (1..2) \X InputIndices : i \in DOMAIN sysfs.hwmon.entries[c].inputs})

\* A chip gets a temp<i>_input file, with or without its temp<i>_label.
InputAppears ==
    /\ sensors.result = "none"
    /\ InputCount < MaxSensors
    /\ \E c \in 1..2, i \in InputIndices, kind \in InputKinds :
          /\ i \notin DOMAIN sysfs.hwmon.entries[c].inputs
          /\ sysfs' = [sysfs EXCEPT !.hwmon.entries[c].inputs = (i :> kind.input) @@ @,
                                    !.hwmon.entries[c].labels = (i :> kind.label) @@ @]
    /\ UNCHANGED <<toolVars, fs, aggVars, walkVars, cleanVars, mtab, statfs, mounts, sensors, probe>>

NextHwmon == InputAppears \/ GetTemperatures

SpecHwmon == InitHwmon /\ [][NextHwmon]_vars

(***************************************************************************)
(* SpecStatus: temperature_status applied to the f32 of a reading.         *)
(***************************************************************************)
StatusInputs ==
    {MilliToCelsius(1000 * c + d) : c \in 1..MaxCelsius, d \in {0, 900}}
    \cup {0, MilliToCelsius(0 - 1000)}

InitStatus ==
    /\ NothingRun
    /\ ToolsIdle
    /\ mtab = [readable |-> TRUE, contents |-> ""]
    /\ statfs = [p \in MountPaths |-> IF p = "/" THEN DiskA ELSE DiskB]
    /\ mounts = NotCalled
    /\ sysfs = [thermal |-> [readable |-> TRUE, entries |-> <<>>],
                hwmon   |-> [readable |-> TRUE, entries |-> <<>>]]
    /\ sensors = NotCalled
    /\ \E celsius \in StatusInputs : probe = [celsius |-> celsius, status |-> "none"]

\* SystemInfo::temperature_status(celsius)
TemperatureStatus ==
    /\ probe' = [probe EXCEPT !.status = temperature_status(probe.celsius)]
    /\ UNCHANGED <<toolVars, fs, aggVars, walkVars, cleanVars, mtab, statfs, mounts, sysfs, sensors>>

NextStatus == TemperatureStatus

SpecStatus == InitStatus /\ [][NextStatus]_vars

(***************************************************************************)
(* disk_analyzer: get_common_large_folders and analyze_folder.  The home   *)
(* directory is a filesystem of its own: node i is the i-th candidate of   *)
(* common_paths, the nodes after them are what lies below the candidates.  *)
(***************************************************************************)
\* dirs::home_dir()
home_dir == 0

common_paths ==
    <<".cache", ".local/share", "Downloads", "Documents", "Pictures", "Videos", "Music",
      ".config">>

Candidates == 1..Len(common_paths)

\* calculate_folder_size(&path, 0, 3)
FolderDepth == 3

\* Enough nodes below the candidates for a file that lies beyond FolderDepth.
HomeBelow == {Len(common_paths) + i : i \in 1..(FolderDepth + 2)}

HomeNodes == {home_dir} \cup Candidates \cup HomeBelow

FolderInfo(path, totals) ==
    [path |-> path, size |-> totals.size, file_count |-> totals.files,
     dir_count |-> totals.dirs]

\* Path::is_dir()
IsDir(f, path) == f[Resolve(f, path, Cardinality(DOMAIN f))].kind \in {"dir", "dir_noread"}

\* Mutant: the comparison the other way round.
SmallestFirst(a, b) ==
    IF a.size < b.size THEN "Less" ELSE IF a.size = b.size THEN "Equal" ELSE "Greater"

\* |a, b| b.size.cmp(&a.size)
LargestFirst(a, b) ==
    IF b.size < a.size THEN "Less" ELSE IF b.size = a.size THEN "Equal" ELSE "Greater"

\* folders.sort_by(..): stable, x goes behind everything that does not come after it.
RECURSIVE InsertBySize(_, _, _)
InsertBySize(sorted, x, k) ==
    IF k > Len(sorted) THEN Append(sorted, x)
    ELSE IF LargestFirst(sorted[k], x) = "Greater"
      THEN SubSeq(sorted, 1, k - 1) \o <<x>> \o SubSeq(sorted, k, Len(sorted))
    ELSE InsertBySize(sorted, x, k + 1)

RECURSIVE SortBySize(_, _, _)
SortBySize(v, k, sorted) ==
    IF k > Len(v) THEN sorted ELSE SortBySize(v, k + 1, InsertBySize(sorted, v[k], 1))

\* Mutant: a candidate that exists is taken whether it is a directory or not.
RECURSIVE CommonLoopAnyKind(_, _, _)
CommonLoopAnyKind(f, k, acc) ==
    IF k > Len(common_paths) THEN acc
    ELSE IF PathExists(f, k)
      THEN CommonLoopAnyKind(f, k + 1,
               Append(acc, FolderInfo(k, calculate_folder_size(f, k, 0, FolderDepth))))
    ELSE CommonLoopAnyKind(f, k + 1, acc)

\* `for path_str in common_paths`
RECURSIVE CommonLoop(_, _, _)
CommonLoop(f, k, acc) ==
    IF k > Len(common_paths) THEN acc
    ELSE IF PathExists(f, k) /\ IsDir(f, k)
      THEN CommonLoop(f, k + 1,
               Append(acc, FolderInfo(k, calculate_folder_size(f, k, 0, FolderDepth))))
    ELSE CommonLoop(f, k + 1, acc)

get_common_large_folders(f) == Finished("Ok", SortBySize(CommonLoop(f, 1, <<>>), 1, <<>>))

\* `for entry in entries.flatten()`, the entries in the order read_dir yields them.
RECURSIVE AnalyzeLoop(_, _, _, _, _)
AnalyzeLoop(f, entries, k, acc, max_depth) ==
    IF k > Len(entries) THEN acc
    ELSE IF MetadataOk(f, entries[k]) /\ MetadataIsDir(f, entries[k])
      THEN AnalyzeLoop(f, entries, k + 1,
               Append(acc, FolderInfo(entries[k],
                                      calculate_folder_size(f, entries[k], 0, max_depth))),
               max_depth)
    ELSE AnalyzeLoop(f, entries, k + 1, acc, max_depth)

\* analyze_folder(path, max_depth); `entries` is what read_dir(path) yields, in its
\* order, when it succeeds.
analyze_folder(f, path, max_depth, entries) ==
    IF ~IsDir(f, path) THEN Finished("Ok", <<>>)
    ELSE IF ~ReadDirOk(f, path) THEN Finished("Ok", <<>>)
    ELSE Finished("Ok", SortBySize(AnalyzeLoop(f, entries, 1, <<>>, max_depth), 1, <<>>))

\* The orders in which read_dir can yield the entries S.
RECURSIVE Orders(_)
Orders(S) ==
    IF S = {} THEN {<<>>}
    ELSE UNION {{<<x>> \o rest : rest \in Orders(S \ {x})} : x \in S}

(***************************************************************************)
(* SpecFolders: up to MaxCandidates of the candidates exist, as a          *)
(* directory or as a file; files and directories come into being below     *)
(* them; then one of the two functions is called, once.                    *)
(***************************************************************************)
InitFolders ==
    /\ fs = [n \in HomeNodes |-> IF n = home_dir THEN Entry("dir", home_dir, 0, 0) ELSE NoEntry]
    /\ NoCalls
    /\ SysIdle
    /\ ToolsIdle

CandidateAppears ==
    /\ folders = NoFolders
    /\ Cardinality(Existing(fs) \cap Candidates) < MaxCandidates
    /\ \E c \in Candidates :
          /\ \A o \in Existing(fs) : o < c
          /\ \/ fs' = [fs EXCEPT ![c] = Entry("dir", home_dir, 0, 0)]
             \/ fs' = [fs EXCEPT ![c] = Entry("file", home_dir, MaxFileSize, 0)]
    /\ UNCHANGED <<toolVars, sysVars, aggVars, walkVars, cleanVars>>

\* A file or a directory comes into being, in the directory made last or as the
\* first entry of a later candidate.  (How the entries of a branching tree add up
\* is the matter of SpecAgg.)
HomeWritten ==
    /\ folders = NoFolders
    /\ \E n \in HomeBelow :
          /\ ~Present(fs, n)
          /\ \A m \in HomeBelow : m < n => Present(fs, m)
          /\ \E d \in Existing(fs) \ {home_dir} :
                /\ fs[d].kind = "dir"
                /\ \/ d = n - 1
                   \/ /\ d \in Candidates
                      /\ \A m \in HomeBelow, c \in Candidates :
                            IsBelow(fs, m, c) => c < d
                /\ \/ fs' = [fs EXCEPT ![n] = Entry("file", d, MaxFileSize, 0)]
                   \/ fs' = [fs EXCEPT ![n] = Entry("dir", d, 0, 0)]
    /\ UNCHANGED <<toolVars, sysVars, aggVars, walkVars, cleanVars>>

Call(fn, enumerated, r) ==
    [fn |-> fn, enumerated |-> enumerated, result |-> r.result, value |-> r.value]

\* get_common_large_folders()
GetCommonLargeFolders ==
    /\ folders = NoFolders
    /\ folders' = Call("get_common_large_folders", [k \in Candidates |-> k],
                       get_common_large_folders(fs))
    /\ UNCHANGED <<sysVars, fs, aggVars, walkVars, cleanVars, shown, scanning, cleaners>>

\* analyze_folder(path, max_depth) on the home directory or on one of the candidates.
AnalyzeFolder ==
    /\ folders = NoFolders
    /\ \E path \in {home_dir} \cup Candidates, max_depth \in 0..MaxDepth :
          \E entries \in Orders(ReadDir(fs, path)) :
             folders' = Call("analyze_folder", entries,
                             analyze_folder(fs, path, max_depth, entries))
    /\ UNCHANGED <<sysVars, fs, aggVars, walkVars, cleanVars, shown, scanning, cleaners>>

NextFolders == CandidateAppears \/ HomeWritten \/ GetCommonLargeFolders \/ AnalyzeFolder

SpecFolders == InitFolders /\ [][NextFolders]_vars

(***************************************************************************)
(* The two byte-size formatters.  A u64 byte count is held as              *)
(* mib * 2^20 + rest with rest < 2^20, so that counts of several GiB stay  *)
(* within the integers of the model checker.                               *)
(***************************************************************************)
Bytes(m, r) == [mib |-> m, rest |-> r]

GB == Bytes(1024, 0)      \* 1024 * 1024 * 1024
MB == Bytes(1, 0)         \* 1024 * 1024
KB == Bytes(0, 1024)      \* 1024

\* bytes >= unit
AtLeast(bytes, unit) ==
    \/ bytes.mib > unit.mib
    \/ bytes.mib = unit.mib /\ bytes.rest >= unit.rest

RECURSIVE Pow2(_)
Pow2(n) == IF n = 0 THEN 1 ELSE 2 * Pow2(n - 1)

\* The binary logarithm of a unit.
UnitBits(unit) == IF unit = GB THEN 30 ELSE IF unit = MB THEN 20 ELSE 10

\* `bytes as f64 / unit as f64` written with {:.2}, in hundredths.  Both conversions
\* and the division by a power of two are exact for counts below 2^53, and the
\* formatter rounds the exact quotient to the nearest hundredth, a tie to the even
\* one.
Hundredths(bytes, unit) ==
    LET bits == UnitBits(unit)
        high == IF bits >= 20 THEN (bytes.mib * 100) \div Pow2(bits - 20)
                ELSE bytes.mib * 100 * Pow2(20 - bits)
        carry == IF bits >= 20 THEN ((bytes.mib * 100) % Pow2(bits - 20)) * Pow2(20) ELSE 0
        low == carry + bytes.rest * 100
        q == high + low \div Pow2(bits)
        r == low % Pow2(bits)
        half == Pow2(bits - 1)
    IN  IF r > half \/ (r = half /\ q % 2 = 1) THEN q + 1 ELSE q

\* format!("{:.2}", ..) of a value given in hundredths.
TwoDecimals(h) ==
    ToString(h \div 100) \o "." \o (IF h % 100 < 10 THEN "0" ELSE "") \o ToString(h % 100)

\* format!("{}", bytes / 1024) for bytes below 2^31.
WholeKB(bytes) == ToString(bytes.mib * 1024 + bytes.rest \div 1024)

\* disk_analyzer: MountPoint::format_size(bytes)
MountPoint_format_size(bytes) ==
    IF AtLeast(bytes, GB) THEN TwoDecimals(Hundredths(bytes, GB)) \o " GB"
    ELSE IF AtLeast(bytes, MB) THEN TwoDecimals(Hundredths(bytes, MB)) \o " MB"
    ELSE WholeKB(bytes) \o " KB"

\* Mutant: two decimals of a kilobyte below 1024 bytes as well.
format_size_kb_below(bytes) ==
    IF AtLeast(bytes, GB) THEN TwoDecimals(Hundredths(bytes, GB)) \o " GB"
    ELSE IF AtLeast(bytes, MB) THEN TwoDecimals(Hundredths(bytes, MB)) \o " MB"
    ELSE TwoDecimals(Hundredths(bytes, KB)) \o " KB"

\* system_cleaner: format_size(bytes)
format_size(bytes) ==
    IF AtLeast(bytes, GB) THEN TwoDecimals(Hundredths(bytes, GB)) \o " GB"
    ELSE IF AtLeast(bytes, MB) THEN TwoDecimals(Hundredths(bytes, MB)) \o " MB"
    ELSE IF AtLeast(bytes, KB) THEN TwoDecimals(Hundredths(bytes, KB)) \o " KB"
    ELSE ToString(bytes.rest) \o " bytes"

(***************************************************************************)
(* SpecFormat: either formatter is handed a byte count at, next to or far  *)
(* from the thresholds.                                                    *)
(***************************************************************************)
MibCounts == {0, 1, 2, 3, 1023, 1024, 1025, 3072}

RestCounts == {0, 1, 500, 1023, 1024, 1025, 1152, 1536, 524288, 1048575}

ByteCounts == {Bytes(m, r) : m \in MibCounts, r \in RestCounts}

Shown(variant, bytes, text) == [variant |-> variant, bytes |-> bytes, text |-> text]

InitFormat == InitCleaner

MountFormatSize ==
    /\ \E bytes \in ByteCounts : shown' = Shown("mount", bytes, MountPoint_format_size(bytes))
    /\ UNCHANGED <<sysVars, fs, aggVars, walkVars, cleanVars, folders, scanning, cleaners>>

CleanerFormatSize ==
    /\ \E bytes \in ByteCounts : shown' = Shown("cleaner", bytes, format_size(bytes))
    /\ UNCHANGED <<sysVars, fs, aggVars, walkVars, cleanVars, folders, scanning, cleaners>>

NextFormat == MountFormatSize \/ CleanerFormatSize

SpecFormat == InitFormat /\ [][NextFormat]_vars

(***************************************************************************)
(* scan_cleanable_items step by step, beside another process.  The scan    *)
(* visits its paths in source order; for each path that exists it first    *)
(* runs calculate_dir_size, then count_files_in_dir, then pushes.  The     *)
(* other process creates and deletes regular files directly in the path    *)
(* under scan, between these steps; as it leaves the directories alone,    *)
(* exists() and the traversal that follows it are one step.                *)
(***************************************************************************)
ScanOrder ==
    <<apt_cache, thumbnails, trash_files, journal_path, firefox_cache, chrome_cache, tmp>>

CategoryOf(p) ==
    IF p = apt_cache THEN "PackageCache"
    ELSE IF p = thumbnails THEN "Thumbnails"
    ELSE IF p = trash_files THEN "Trash"
    ELSE IF p = journal_path THEN "Logs"
    ELSE IF p \in {firefox_cache, chrome_cache} THEN "BrowserCache"
    ELSE "TempFiles"

Scan(stage, at, size, bsize, bcount, bpaths, its) ==
    [stage |-> stage, at |-> at, size |-> size, browser_size |-> bsize,
     browser_count |-> bcount, browser_paths |-> bpaths, items |-> its]

\* `let mut items = Vec::new();`
ScanStarted == Scan("size", 1, 0, 0, 0, <<>>, <<>>)

\* The scan goes on to the path after s.at, or returns Ok(items).
GoOn(s) ==
    IF s.at = Len(ScanOrder) THEN [s EXCEPT !.stage = "done", !.size = 0]
    ELSE [s EXCEPT !.stage = "size", !.at = s.at + 1, !.size = 0]

\* `if browser_size > 0 { items.push(..) }`
PushBrowser(s) ==
    IF s.browser_size > 0
      THEN [s EXCEPT !.items = Append(s.items,
                CleanupItem("BrowserCache", s.browser_size, s.browser_count, s.browser_paths))]
      ELSE s

\* What follows the two traversals of a path that exists.
ThenPush(s, p, size, count) ==
    IF p \in {firefox_cache, chrome_cache}
      THEN LET t == [s EXCEPT !.browser_size = s.browser_size + size,
                              !.browser_count = s.browser_count + count,
                              !.browser_paths = Append(s.browser_paths, p)]
           IN  IF p = chrome_cache THEN PushBrowser(t) ELSE t
    ELSE IF p = tmp /\ count = 0 THEN s
    ELSE [s EXCEPT !.items = Append(s.items, CleanupItem(CategoryOf(p), size, count, <<p>>))]

\* A path that does not exist.
Skipped(s, p) == IF p = chrome_cache THEN PushBrowser(s) ELSE s

(***************************************************************************)
(* SpecScanRace                                                            *)
(***************************************************************************)
InitScanRace == InitCleaner

\* One of the scanned directories comes into being, before the scan.
ScannedDirAppears ==
    /\ scanning = NotScanning
    /\ Cardinality(Existing(fs)) < MaxCandidates
    /\ \E k \in 1..Len(ScanOrder) :
          /\ \A o \in Existing(fs) : \A j \in 1..k : ScanOrder[j] # o
          /\ fs' = [fs EXCEPT ![ScanOrder[k]] = Entry("dir", Outside, 0, 0)]
    /\ UNCHANGED <<toolVars, sysVars, aggVars, walkVars, cleanVars>>

\* scan_cleanable_items() is called.
ScanBegins ==
    /\ scanning = NotScanning
    /\ scanning' = ScanStarted
    /\ UNCHANGED <<sysVars, fs, aggVars, walkVars, cleanVars, folders, shown, cleaners>>

\* `if p.exists() { let size = calculate_dir_size(&p);`
ScanMeasures ==
    /\ scanning.stage = "size"
    /\ LET p == ScanOrder[scanning.at]
       IN  scanning' =
               IF PathExists(fs, p)
                 THEN [scanning EXCEPT !.stage = "count", !.size = calculate_dir_size(fs, p)]
                 ELSE GoOn(Skipped(scanning, p))
    /\ UNCHANGED <<sysVars, fs, aggVars, walkVars, cleanVars, folders, shown, cleaners>>

\* `let count = count_files_in_dir(&p); items.push(..) }`
ScanCounts ==
    /\ scanning.stage = "count"
    /\ LET p == ScanOrder[scanning.at]
       IN  scanning' = GoOn(ThenPush(scanning, p, scanning.size, count_files_in_dir(fs, p)))
    /\ UNCHANGED <<sysVars, fs, aggVars, walkVars, cleanVars, folders, shown, cleaners>>

UnderScan == ScanOrder[scanning.at]

\* The other process creates a regular file in the path under scan.
OtherCreates ==
    /\ scanning.stage \in {"size", "count"}
    /\ fs[UnderScan].kind = "dir"
    /\ \E n \in BelowIds :
          /\ ~Present(fs, n)
          /\ \A m \in BelowIds : m < n => Present(fs, m)
          /\ fs' = [fs EXCEPT ![n] = Entry("file", UnderScan, MaxFileSize, 0)]
    /\ UNCHANGED <<toolVars, sysVars, aggVars, walkVars, cleanVars>>

\* The other process deletes a regular file of the path under scan.
OtherDeletes ==
    /\ scanning.stage \in {"size", "count"}
    /\ \E n \in BelowIds :
          /\ Present(fs, n)
          /\ fs[n].parent = UnderScan
          /\ fs' = [fs EXCEPT ![n] = NoEntry]
    /\ UNCHANGED <<toolVars, sysVars, aggVars, walkVars, cleanVars>>

NextScanRace ==
    ScannedDirAppears \/ ScanBegins \/ ScanMeasures \/ ScanCounts \/ OtherCreates \/ OtherDeletes

SpecScanRace == InitScanRace /\ [][NextScanRace]_vars

(***************************************************************************)
(* Two cleanups of one directory-backed category side by side.  Each runs  *)
(* `if p.exists() { fs::remove_dir_all(&p)?; fs::create_dir_all(&p)?; }`   *)
(* for the directories of the category in turn; the exists() test and the  *)
(* two calls are steps of their own, and what the other cleanup has done   *)
(* in between decides how each of them ends.  Nothing else fails here:     *)
(* every directory can be listed and written.                              *)
(***************************************************************************)
DirectoryBacked == {"Thumbnails", "Trash", "BrowserCache"}

\* The directories clean_category(c) clears, in order.
PathsOf(c) ==
    IF c = "Thumbnails" THEN <<thumbnails>>
    ELSE IF c = "Trash" THEN <<trash_files, trash_info>>
    ELSE <<firefox_cache, chrome_cache>>

Cleaner(at, pc, result) == [at |-> at, pc |-> pc, result |-> result]

Cleaning(category, existed, filled, procs) ==
    [category |-> category, existed |-> existed, filled |-> filled, procs |-> procs]

\* The closing brace of an `if p.exists()` block: the next block, or Ok(()).
NextBlock(category, c) ==
    IF c.at = Len(PathsOf(category)) THEN Cleaner(c.at, "done", "Ok")
    ELSE Cleaner(c.at + 1, "check", "none")

\* `if p.exists() {`
Checked(f, category, c) ==
    IF PathExists(f, PathsOf(category)[c.at]) THEN Returned(f, Cleaner(c.at, "remove", "none"))
    ELSE Returned(f, NextBlock(category, c))

\* `fs::remove_dir_all(&p)?`: an Err, and the return, when p is gone by now.
Removed(f, category, c) ==
    LET p == PathsOf(category)[c.at]
    IN  IF PathExists(f, p) THEN Returned(RemoveDirAll(f, p), Cleaner(c.at, "create", "none"))
        ELSE Returned(f, Cleaner(c.at, "done", "Err"))

\* Mutant: the directory is not made again.
CreatedNothing(f, category, c) == Returned(f, NextBlock(category, c))

\* `fs::create_dir_all(&p)?`: Ok also when p exists already.
Created(f, category, c) ==
    Returned(CreateDirAll(f, PathsOf(category)[c.at]), NextBlock(category, c))

(***************************************************************************)
(* SpecCleanRace                                                           *)
(***************************************************************************)
InitCleanRace == InitCleaner

BackingPaths == {thumbnails, trash_files, trash_info, firefox_cache, chrome_cache}

\* One of the directories comes into being, before the cleanups.
BackingDirAppears ==
    /\ cleaners = NoCleaners
    /\ Cardinality(Existing(fs)) < MaxCandidates
    /\ \E p \in BackingPaths :
          /\ \A o \in Existing(fs) : o < p
          /\ fs' = [fs EXCEPT ![p] = Entry("dir", Outside, 0, 0)]
    /\ UNCHANGED <<toolVars, sysVars, aggVars, walkVars, cleanVars>>

\* A file or a directory comes into being below them, before the cleanups.
BackingDirFilled ==
    /\ cleaners = NoCleaners
    /\ \E n \in BelowIds :
          /\ ~Present(fs, n)
          /\ \A m \in BelowIds : m < n => Present(fs, m)
          /\ \E d \in Existing(fs) :
                /\ fs[d].kind = "dir"
                /\ \A m \in BelowIds : m < n => fs[m].parent <= d
                /\ \/ fs' = [fs EXCEPT ![n] = Entry("file", d, MaxFileSize, 0)]
                   \/ fs' = [fs EXCEPT ![n] = Entry("dir", d, 0, 0)]
    /\ UNCHANGED <<toolVars, sysVars, aggVars, walkVars, cleanVars>>

\* clean_category(c) is called twice at once.
CleanersStart ==
    /\ cleaners = NoCleaners
    /\ \E category \in DirectoryBacked :
          cleaners' = Cleaning(category,
                               {p \in BackingPaths : PathExists(fs, p)},
                               {p \in BackingPaths : Entries(fs, p) # {}},
                               [i \in 1..2 |-> Cleaner(1, "check", "none")])
    /\ UNCHANGED <<sysVars, fs, aggVars, walkVars, cleanVars, folders, shown, scanning>>

Stepped(i, r) ==
    /\ fs' = r.fs
    /\ cleaners' = [cleaners EXCEPT !.procs[i] = r.result]

CleanerChecks ==
    /\ \E i \in DOMAIN cleaners.procs :
          /\ cleaners.procs[i].pc = "check"
          /\ Stepped(i, Checked(fs, cleaners.category, cleaners.procs[i]))
    /\ UNCHANGED <<sysVars, aggVars, walkVars, cleanVars, folders, shown, scanning>>

CleanerRemoves ==
    /\ \E i \in DOMAIN cleaners.procs :
          /\ cleaners.procs[i].pc = "remove"
          /\ Stepped(i, Removed(fs, cleaners.category, cleaners.procs[i]))
    /\ UNCHANGED <<sysVars, aggVars, walkVars, cleanVars, folders, shown, scanning>>

CleanerCreates ==
    /\ \E i \in DOMAIN cleaners.procs :
          /\ cleaners.procs[i].pc = "create"
          /\ Stepped(i, Created(fs, cleaners.category, cleaners.procs[i]))
    /\ UNCHANGED <<sysVars, aggVars, walkVars, cleanVars, folders, shown, scanning>>

NextCleanRace ==
    \/ BackingDirAppears
    \/ BackingDirFilled
    \/ CleanersStart
    \/ CleanerChecks
    \/ CleanerRemoves
    \/ CleanerCreates

SpecCleanRace == InitCleanRace /\ [][NextCleanRace]_vars

(***************************************************************************)
(* What the claims say of a mount table, stated on the table itself.       *)
(***************************************************************************)
\* The fields of line k of the table.
FieldsOf(k) == split_whitespace(lines(mtab.contents)[k])

ExclusionSet == {"tmpfs", "devtmpfs", "proc", "sysfs", "cgroup", "devpts"}

BeginsWithFuse(t) ==
    \E n \in 0..Len(t) : t = "fuse" \o SubSeq(t, Len(t) - n + 1, Len(t))

Excluded(t) == t \in ExclusionSet \/ BeginsWithFuse(t)

\* Line k is an entry, of a type that is not excluded, and its capacity query
\* succeeds.
Passes(k) ==
    /\ Len(FieldsOf(k)) >= 3
    /\ ~Excluded(FieldsOf(k)[3])
    /\ StatOk(statfs[FieldsOf(k)[2]])

(***************************************************************************)
(* C11, as claimed: total = blocks x block_size, available =               *)
(* available_blocks x block_size, used = total - free_blocks x block_size, *)
(* so that with available_blocks <= free_blocks <= blocks,                 *)
(* used + available <= total and used <= total.                            *)
(***************************************************************************)
C11_AsClaimed ==
    mounts.result = "Ok" =>
        \A i \in 1..Len(mounts.value) :
            LET m    == mounts.value[i]
                stat == statfs[m.mount_point]
            IN  /\ m.total = stat.blocks * stat.block_size
                /\ m.available = stat.blocks_available * stat.block_size
                /\ m.used = m.total - stat.blocks_free * stat.block_size
                /\ (stat.blocks_available <= stat.blocks_free /\ stat.blocks_free <= stat.blocks)
                      => (m.used + m.available <= m.total /\ m.used <= m.total)

(***************************************************************************)
(* C12, as claimed: used_percentage of a returned MountPoint lies in       *)
(* [0, 100] when total > 0 and is 0 when total = 0.                        *)
(***************************************************************************)
C12_AsClaimed ==
    mounts.result = "Ok" =>
        \A i \in 1..Len(mounts.value) :
            LET m == mounts.value[i]
                p == used_percentage(m)
            IN  /\ m.total > 0 => (0 <= p.num /\ p.num <= 100 * p.den)
                /\ m.total = 0 => p.num = 0

(***************************************************************************)
(* C13: no returned entry has a type of the exclusion set or one beginning *)
(* with "fuse", and every entry of another type whose capacity query       *)
(* succeeds is returned.                                                   *)
(***************************************************************************)
C13_ClosedExclusionSet ==
    mounts.result = "Ok" =>
        /\ \A i \in 1..Len(mounts.value) : ~Excluded(mounts.value[i].fs_type)
        /\ \A k \in 1..TableLength :
              Passes(k) =>
                  \E i \in 1..Len(mounts.value) :
                      /\ mounts.value[i].device = FieldsOf(k)[1]
                      /\ mounts.value[i].mount_point = FieldsOf(k)[2]
                      /\ mounts.value[i].fs_type = FieldsOf(k)[3]

\* A fuseblk mount whose capacity can be queried was left out.
C13_Witness ==
    /\ mounts.result = "Ok"
    /\ TableLength = 1
    /\ Len(FieldsOf(1)) >= 3
    /\ FieldsOf(1)[3] = "fuseblk"
    /\ StatOk(statfs[FieldsOf(1)[2]])
    /\ mounts.value = <<>>

(***************************************************************************)
(* C14: the returned sequence is the mount table's entries that pass the   *)
(* type filter and whose capacity query succeeds, in the table's order.    *)
(***************************************************************************)
RECURSIVE PassingUpTo(_)
PassingUpTo(k) ==
    IF k = 0 THEN <<>>
    ELSE IF Passes(k)
      THEN Append(PassingUpTo(k - 1), <<FieldsOf(k)[1], FieldsOf(k)[2], FieldsOf(k)[3]>>)
    ELSE PassingUpTo(k - 1)

C14_OrderPreservingSubsequence ==
    mounts.result = "Ok" =>
        [i \in 1..Len(mounts.value) |->
            <<mounts.value[i].device, mounts.value[i].mount_point, mounts.value[i].fs_type>>]
        = IF mtab.readable THEN PassingUpTo(TableLength) ELSE <<>>

\* Two different disks with a stale mount between them: the disks are returned, in
\* their order.
C14_Witness ==
    /\ mounts.result = "Ok"
    /\ TableLength = 3
    /\ Passes(1) /\ Passes(3)
    /\ FieldsOf(1) # FieldsOf(3)
    /\ Len(FieldsOf(2)) >= 3 /\ ~Excluded(FieldsOf(2)[3]) /\ ~StatOk(statfs[FieldsOf(2)[2]])
    /\ Len(mounts.value) = 2

(***************************************************************************)
(* What the claims say of the sensors.                                     *)
(***************************************************************************)
Range(v) == {v[i] : i \in 1..Len(v)}

\* The sensors as they stand between sort_by and dedup_by.
Sorted == sort_by(Collected(sysfs)).value

\* Less than 0.1 degrees apart, on the stored temperatures.
LessThanTenthApart(a, b) == 10 * Abs(a.temperature - b.temperature) < F32One

(***************************************************************************)
(* C15, as claimed: no reporting function returns an error or aborts,      *)
(* whatever the mount table, the capacity answers and the sensor files     *)
(* hold; an unreadable mount table gives Ok with an empty sequence, and no *)
(* reported temperature is NaN.                                            *)
(***************************************************************************)
C15_AsClaimed ==
    /\ mounts.result \in {"none", "Ok"}
    /\ sensors.result \in {"none", "Ok"}
    /\ (mounts.result # "none" /\ ~mtab.readable) => mounts = Finished("Ok", <<>>)
    /\ \A i \in 1..Len(sensors.value) : sensors.value[i].temperature # NaN

(***************************************************************************)
(* C16: the result is the sorted sequence without the entries dropped, and *)
(* every dropped entry has the same label as the retained entry            *)
(* immediately before it and a temperature less than 0.1 degrees from it.  *)
(***************************************************************************)
C16_DropsOnlyNearSameLabel ==
    sensors.result = "Ok" =>
        LET before == Sorted
            after  == sensors.value
        IN  \E retained \in SUBSET (1..Len(before)) :
                /\ Cardinality(retained) = Len(after)
                /\ \A j \in retained :
                      after[Cardinality({i \in retained : i <= j})] = before[j]
                /\ \A j \in (1..Len(before)) \ retained :
                      \E i \in retained :
                          /\ i < j
                          /\ \A h \in retained : h < j => h <= i
                          /\ before[i].label = before[j].label
                          /\ LessThanTenthApart(before[i], before[j])

\* An entry was dropped, and two neighbours less than 0.1 degrees apart with
\* different labels were both kept.
C16_Witness ==
    /\ sensors.result = "Ok"
    /\ Len(sensors.value) < Len(Sorted)
    /\ \E i \in 1..(Len(sensors.value) - 1) :
          /\ sensors.value[i].label # sensors.value[i + 1].label
          /\ LessThanTenthApart(sensors.value[i], sensors.value[i + 1])

(***************************************************************************)
(* C17: deduplicating the result again changes nothing.                    *)
(***************************************************************************)
C17_DedupIdempotent ==
    sensors.result = "Ok" => dedup_by(sensors.value) = sensors.value

\* Two entries were dropped and one was kept.
C17_Witness ==
    /\ sensors.result = "Ok"
    /\ Len(sensors.value) >= 1
    /\ Len(sensors.value) + 2 <= Len(Sorted)

(***************************************************************************)
(* C18: the result is in non-increasing order of temperature.              *)
(***************************************************************************)
C18_HottestFirst ==
    sensors.result = "Ok" =>
        \A i, j \in 1..Len(sensors.value) :
            i < j => sensors.value[i].temperature >= sensors.value[j].temperature

\* The hottest sensor was collected last, and deduplication dropped an entry.
C18_Witness ==
    /\ sensors.result = "Ok"
    /\ Len(sensors.value) >= 2
    /\ Len(sensors.value) < Len(Sorted)
    /\ LET found == Collected(sysfs)
       IN  /\ found[Len(found)] = sensors.value[1]
           /\ found[1].temperature < sensors.value[1].temperature

(***************************************************************************)
(* C19: temperature_status is Normal below 50, Warm from 50 to below 70,   *)
(* Hot from 70 to below 85 and Critical from 85 on; 49.9, 50.0, 69.9,      *)
(* 70.0, 84.9 and 85.0 are Normal, Warm, Warm, Hot, Hot and Critical; and  *)
(* no higher temperature has a lower severity.                             *)
(***************************************************************************)
Severity(status) ==
    CASE status = "Normal"   -> 0
      [] status = "Warm"     -> 1
      [] status = "Hot"      -> 2
      [] status = "Critical" -> 3

Boundary ==
    [x \in {49900, 50000, 69900, 70000, 84900, 85000} |->
        CASE x = 49900 -> "Normal"
          [] x = 50000 -> "Warm"
          [] x = 69900 -> "Warm"
          [] x = 70000 -> "Hot"
          [] x = 84900 -> "Hot"
          [] x = 85000 -> "Critical"]

C19_Thresholds ==
    probe.status # "none" =>
        /\ probe.status = "Normal"   <=> probe.celsius < 50 * F32One
        /\ probe.status = "Warm"     <=> (50 * F32One <= probe.celsius /\ probe.celsius < 70 * F32One)
        /\ probe.status = "Hot"      <=> (70 * F32One <= probe.celsius /\ probe.celsius < 85 * F32One)
        /\ probe.status = "Critical" <=> 85 * F32One <= probe.celsius
        /\ \A x \in DOMAIN Boundary :
              probe.celsius = MilliToCelsius(x) => probe.status = Boundary[x]
        /\ \A higher \in StatusInputs :
              higher >= probe.celsius =>
                  Severity(temperature_status(higher)) >= Severity(probe.status)

C19_Witness ==
    /\ probe.celsius = MilliToCelsius(84900)
    /\ probe.status = "Hot"

(***************************************************************************)
(* C20.  The chips of /sys/class/hwmon that are directories, the inputs    *)
(* get_temperatures can read in them, and what the claim says is reported. *)
(***************************************************************************)
Chips == {c \in 1..Len(sysfs.hwmon.entries) : sysfs.hwmon.entries[c].is_dir}

ChipName(c) == ReadOrElse(sysfs.hwmon.entries[c].name, sysfs.hwmon.entries[c].file_name)

Reading(c, i) == ParseI32(trim(TempInput(sysfs.hwmon.entries[c], i).text))

Readable(c, i) == ReadOk(TempInput(sysfs.hwmon.entries[c], i)) /\ Reading(c, i).ok

Unlabelled(c, i) == Readable(c, i) /\ ~FileExists(TempLabel(sysfs.hwmon.entries[c], i))

Probed == (1..19)

\* The entry claimed for input i of chip c when it has no label file.
Generic(c, i) ==
    TemperatureSensor(ChipName(c) \o " - Sensor " \o ToString(i),
                      MilliToCelsius(Reading(c, i).value),
                      "Sensor " \o ToString(i))

\* Every reported entry is of an input with an index from 1 to 19, and there are
\* no more entries than such inputs.
OnlyProbedReported ==
    /\ \A s \in Range(sensors.value) :
          \E c \in Chips, i \in Probed :
              /\ Readable(c, i)
              /\ s.temperature = MilliToCelsius(Reading(c, i).value)
              /\ s.name = ChipName(c) \o " - " \o s.label
    /\ Len(sensors.value) <= Cardinality({p \in Chips \X Probed : Readable(p[1], p[2])})

(***************************************************************************)
(* C20, as claimed: only inputs 1 to 19 are reported, and every input i of *)
(* that range without a label file is reported with label "Sensor i" and   *)
(* name "<chip name> - Sensor i", whatever lower indices are missing.      *)
(***************************************************************************)
C20_AsClaimed ==
    sensors.result = "Ok" =>
        /\ OnlyProbedReported
        /\ \A c \in Chips, i \in Probed :
              Unlabelled(c, i) => Generic(c, i) \in Range(sensors.value)

(***************************************************************************)
(* C20, amended: only inputs 1 to 19 are reported, and every input i of    *)
(* that range without a label file is reported with label "Sensor i" and   *)
(* name "<chip name> - Sensor i", whatever lower indices are missing,      *)
(* unless the result holds an entry with the same label less than 0.1      *)
(* degrees from it, as a duplicate of which it was dropped.                *)
(***************************************************************************)
C20_ReportedUnlessDuplicate ==
    sensors.result = "Ok" =>
        /\ OnlyProbedReported
        /\ \A c \in Chips, i \in Probed :
              Unlabelled(c, i) =>
                  \/ Generic(c, i) \in Range(sensors.value)
                  \/ \E kept \in Range(sensors.value) :
                        /\ kept.label = Generic(c, i).label
                        /\ LessThanTenthApart(kept, Generic(c, i))

\* Input 19 of a chip without input 1 is reported under its generic label, inputs
\* outside the range exist, and an unlabelled input was dropped as a duplicate.
C20_Witness ==
    /\ sensors.result = "Ok"
    /\ \E c \in Chips :
          /\ ~FileExists(TempInput(sysfs.hwmon.entries[c], 1))
          /\ Unlabelled(c, 19)
          /\ Generic(c, 19) \in Range(sensors.value)
    /\ \E c \in Chips : Readable(c, 0) \/ Readable(c, 20)

\* Two chips whose unlabelled inputs 1 read the same: one entry is dropped.
C20_DuplicateDropped ==
    /\ sensors.result = "Ok"
    /\ \E c \in Chips : Unlabelled(c, 1) /\ Generic(c, 1) \notin Range(sensors.value)

(***************************************************************************)
(* C21: the browser-cache item of a scan has as size and count the sum of  *)
(* the sizes and the number of the files under the browser directories     *)
(* that exist, and as paths those directories, Firefox's before Chrome's;  *)
(* the item is there as soon as the directories that exist hold a byte.    *)
(***************************************************************************)
ExistingBrowserPaths ==
    (IF PathExists(fs, firefox_cache) THEN <<firefox_cache>> ELSE <<>>)
    \o (IF PathExists(fs, chrome_cache) THEN <<chrome_cache>> ELSE <<>>)

C21_BrowserDirectoriesMerged ==
    phase = "scanned" =>
        /\ \A i \in ItemsOf("BrowserCache") :
              /\ items[i].size = SumSizes(fs, FilesUnder(fs, "BrowserCache"))
              /\ items[i].count = Cardinality(FilesUnder(fs, "BrowserCache"))
              /\ items[i].paths = ExistingBrowserPaths
        /\ SumSizes(fs, FilesUnder(fs, "BrowserCache")) > 0 => ItemsOf("BrowserCache") # {}

\* Both directories exist and hold a file each; and a scan with Chrome's alone.
C21_Witness ==
    /\ phase = "scanned"
    /\ \E i \in ItemsOf("BrowserCache") :
          /\ items[i].paths = <<firefox_cache, chrome_cache>>
          /\ items[i].size = 2 * MaxFileSize
          /\ \E n \in DOMAIN fs : fs[n].kind = "file" /\ fs[n].parent = firefox_cache
          /\ \E n \in DOMAIN fs : fs[n].kind = "file" /\ fs[n].parent = chrome_cache

C21_OneDirectoryAlone ==
    /\ phase = "scanned"
    /\ \E i \in ItemsOf("BrowserCache") : items[i].paths = <<chrome_cache>>

(***************************************************************************)
(* C22: the items of a scan stand in the order package cache, thumbnail    *)
(* cache, trash, old logs, browser cache, temporary files, whatever their  *)
(* sizes, no category twice.                                               *)
(***************************************************************************)
CategoryOrder ==
    <<"PackageCache", "Thumbnails", "Trash", "Logs", "BrowserCache", "TempFiles">>

Rank(c) == CHOOSE k \in 1..Len(CategoryOrder) : CategoryOrder[k] = c

C22_FixedCategoryOrder ==
    phase = "scanned" =>
        /\ \A i \in 1..Len(items) : items[i].category \in Range(CategoryOrder)
        /\ \A i, j \in 1..Len(items) :
              i < j => Rank(items[i].category) < Rank(items[j].category)

\* A smaller item stands before a larger one.
C22_Witness ==
    /\ phase = "scanned"
    /\ \E i, j \in 1..Len(items) : i < j /\ items[i].size < items[j].size

(***************************************************************************)
(* C26: in the view, the stored items are those of a scan of the           *)
(* filesystem as the last request left it, and for every call of the       *)
(* request that cleaned thumbnails, trash or browser cache and returned Ok *)
(* the category is absent from them or has size 0 and count 0.             *)
(***************************************************************************)
C26_RescanShowsNothingLeft ==
    phase = "view" =>
        /\ items = scan_cleanable_items(fs)
        /\ \A k \in 1..Len(log) :
              (log[k].result = "Ok" /\ log[k].category \in {"Thumbnails", "Trash", "BrowserCache"})
                  => \A i \in ItemsOf(log[k].category) :
                        items[i].size = 0 /\ items[i].count = 0

\* Thumbnails held data when the request began, were cleaned, and are shown empty.
C26_Witness ==
    /\ phase = "view"
    /\ \E k \in 1..Len(log) : log[k].category = "Thumbnails" /\ log[k].result = "Ok"
    /\ \E i \in 1..Len(asked.items) :
          asked.items[i].category = "Thumbnails" /\ asked.items[i].size > 0
    /\ \E i \in ItemsOf("Thumbnails") : items[i].size = 0 /\ items[i].count = 0

(***************************************************************************)
(* C29: when removing or making again the first directory of trash or      *)
(* browser cache fails, the call returns Err and the second directory and  *)
(* everything below it are as they were.                                   *)
(***************************************************************************)
SecondDirectory(c) == IF c = "Trash" THEN trash_info ELSE chrome_cache

FirstDirectory(c) == IF c = "Trash" THEN trash_files ELSE firefox_cache

FirstFailed ==
    /\ phase = "cleaned" /\ Len(log) = 1
    /\ log[1].category \in {"Trash", "BrowserCache"}
    /\ Present(pre, FirstDirectory(log[1].category))
    /\ log[1].outcome.first \in {"remove_fails", "remove_fails_partway", "create_fails"}

C29_SecondDirectoryUntouched ==
    FirstFailed =>
        /\ log[1].result = "Err"
        /\ \A n \in DOMAIN fs :
              (\/ n = SecondDirectory(log[1].category)
               \/ IsBelow(pre, n, SecondDirectory(log[1].category))
               \/ IsBelow(fs, n, SecondDirectory(log[1].category)))
                  => fs[n] = pre[n]

\* The second directory held something when the first one failed.
C29_Witness ==
    /\ FirstFailed
    /\ \E n \in DOMAIN pre : IsBelow(pre, n, SecondDirectory(log[1].category))

(***************************************************************************)
(* C30: no scan returns an item of category OldKernels, and the view never *)
(* calls clean_category for it.                                            *)
(***************************************************************************)
C30_OldKernelsUnreachable ==
    /\ \A i \in 1..Len(items) : items[i].category # "OldKernels"
    /\ \A i \in 1..Len(asked.items) : asked.items[i].category # "OldKernels"
    /\ \A k \in 1..Len(log) : log[k].category # "OldKernels"

\* A request of the view has made calls, and the rescan shows items.
C30_Witness ==
    /\ phase = "view"
    /\ Len(log) >= 1
    /\ items # <<>>

(***************************************************************************)
(* What the claims say of the folder lists                                 *)
(***************************************************************************)
\* The number of directories between p and n, n's own parent included.
RECURSIVE Steps(_, _, _)
Steps(f, n, p) == IF f[n].parent = p THEN 1 ELSE 1 + Steps(f, f[n].parent, p)

\* What a traversal of p reaches that goes three levels below p's own entries.
Reached(f, p) == {n \in DOMAIN f : ListedBelow(f, n, p) /\ Steps(f, n, p) <= 4}

ReachedFiles(f, p) == {n \in Reached(f, p) : f[n].kind = "file"}

ReachedDirs(f, p) == {n \in Reached(f, p) : f[n].kind \in {"dir", "dir_noread"}}

Reported(p) == {i \in 1..Len(folders.value) : folders.value[i].path = p}

\* C23: get_common_large_folders returns one FolderInfo for each of the eight
\* candidates that exists as a directory, each once, with the depth-3 aggregate of
\* that candidate; a candidate that does not exist or is not a directory has no
\* entry, and no other path has one.
C23_OnePerExistingDirectory ==
    folders.fn = "get_common_large_folders" =>
        /\ folders.result = "Ok"
        /\ \A c \in Candidates :
              Cardinality(Reported(c)) =
                  (IF fs[c].kind \in {"dir", "dir_noread"} THEN 1 ELSE 0)
        /\ \A i \in 1..Len(folders.value) :
              LET info == folders.value[i]
              IN  /\ info.path \in Candidates
                  /\ info.size = SumSizes(fs, ReachedFiles(fs, info.path))
                  /\ info.file_count = Cardinality(ReachedFiles(fs, info.path))
                  /\ info.dir_count = Cardinality(ReachedDirs(fs, info.path))

\* One candidate is a directory holding a file too deep to be counted, another
\* candidate is a regular file.
C23_Witness ==
    /\ folders.fn = "get_common_large_folders"
    /\ Len(folders.value) = 1
    /\ \E c \in Candidates : fs[c].kind = "file"
    /\ \E n \in HomeBelow :
          /\ fs[n].kind = "file"
          /\ ListedBelow(fs, n, folders.value[1].path)
          /\ n \notin Reached(fs, folders.value[1].path)
    /\ folders.value[1].dir_count = 4

Position(seq, x) == CHOOSE k \in 1..Len(seq) : seq[k] = x

\* C24: what get_common_large_folders and analyze_folder return is sorted by size,
\* largest first, and folders of equal size keep the order in which the candidates
\* were listed or the directory was enumerated.
C24_LargestFirstStable ==
    folders.result = "Ok" =>
        \A i, j \in 1..Len(folders.value) :
            i < j =>
                /\ folders.value[i].size >= folders.value[j].size
                /\ folders.value[i].size = folders.value[j].size =>
                       Position(folders.enumerated, folders.value[i].path)
                           < Position(folders.enumerated, folders.value[j].path)

\* analyze_folder met two folders of one size, enumerated against the order of their
\* names.
C24_Witness ==
    /\ folders.fn = "analyze_folder"
    /\ Len(folders.value) = 2
    /\ folders.value[1].size = folders.value[2].size
    /\ folders.value[1].size > 0
    /\ folders.value[1].path > folders.value[2].path

\* get_common_large_folders moved a later, larger candidate to the front.
C24_Reordered ==
    /\ folders.fn = "get_common_large_folders"
    /\ Len(folders.value) = 2
    /\ folders.value[1].size > folders.value[2].size
    /\ folders.value[1].path > folders.value[2].path

(***************************************************************************)
(* What the claims say of the formatted sizes                              *)
(***************************************************************************)
EndsWith(s, suffix) ==
    /\ Len(s) >= Len(suffix)
    /\ SubSeq(s, Len(s) - Len(suffix) + 1, Len(s)) = suffix

\* s is digits, a point and two digits, followed by the suffix.
IsTwoDecimal(s, suffix) ==
    /\ EndsWith(s, suffix)
    /\ Len(s) >= Len(suffix) + 4
    /\ LET number == SubSeq(s, 1, Len(s) - Len(suffix))
           n == Len(number)
       IN  /\ SubSeq(number, n - 2, n - 2) = "."
           /\ \A i \in 1..n : i # n - 2 => IsDigit(SubSeq(number, i, i))

\* s is digits only, followed by the suffix.
IsWhole(s, suffix) ==
    /\ EndsWith(s, suffix)
    /\ Len(s) > Len(suffix)
    /\ \A i \in 1..(Len(s) - Len(suffix)) : IsDigit(SubSeq(s, i, i))

Gibi(bytes) == bytes.mib >= 1024

Mebi(bytes) == bytes.mib >= 1 /\ bytes.mib < 1024

\* The units and the worked examples the two formatters are said to share.
UnitsAbove ==
    /\ IsTwoDecimal(shown.text, " GB") <=> Gibi(shown.bytes)
    /\ IsTwoDecimal(shown.text, " MB") <=> Mebi(shown.bytes)
    /\ shown.bytes = Bytes(2, 0) => shown.text = "2.00 MB"
    /\ shown.bytes = Bytes(3072, 0) => shown.text = "3.00 GB"
    /\ shown.variant = "mount" /\ shown.bytes.mib = 0 =>
          shown.text = ToString(shown.bytes.rest \div 1024) \o " KB"
    /\ shown.variant = "mount" /\ shown.bytes = Bytes(0, 500) => shown.text = "0 KB"

\* C25 as stated: GB from 2^30 on, MB from 2^20 up to 2^30, KB for every value below
\* 2^20 (whole kilobytes in the mount/folder variant, two decimals in the cleanup
\* variant, which renders 500 as "500 B").
C25_AsClaimed ==
    shown.variant # "none" =>
        /\ UnitsAbove
        /\ shown.variant = "cleaner" /\ shown.bytes.mib = 0 /\ shown.bytes # Bytes(0, 500) =>
              IsTwoDecimal(shown.text, " KB")
        /\ shown.variant = "cleaner" /\ shown.bytes = Bytes(0, 500) => shown.text = "500 B"

\* C25, amended: as stated, but the cleanup variant gives two-decimal KB from 1024
\* bytes on only and writes every smaller count as "<n> bytes", 500 as "500 bytes".
C25_UnitsByThreshold ==
    shown.variant # "none" =>
        /\ UnitsAbove
        /\ shown.variant = "cleaner" /\ shown.bytes.mib = 0 /\ shown.bytes.rest >= 1024 =>
              IsTwoDecimal(shown.text, " KB")
        /\ shown.variant = "cleaner" /\ shown.bytes.mib = 0 /\ shown.bytes.rest < 1024 =>
              shown.text = ToString(shown.bytes.rest) \o " bytes"
        /\ shown.variant = "cleaner" /\ shown.bytes = Bytes(0, 500) =>
              shown.text = "500 bytes"

\* The cleanup variant was handed 500 bytes.
C25_Witness ==
    /\ shown.variant = "cleaner"
    /\ shown.bytes = Bytes(0, 500)
    /\ shown.text = "500 bytes"

\* The other cases of the statement: three GiB, two MiB, 500 bytes in whole kilobytes,
\* a kilobyte and a half in hundredths.
C25_ThreeGiB == shown = Shown("mount", Bytes(3072, 0), "3.00 GB")

C25_TwoMiB == shown = Shown("cleaner", Bytes(2, 0), "2.00 MB")

C25_WholeKB == shown = Shown("mount", Bytes(0, 500), "0 KB")

C25_HalfKB == shown = Shown("cleaner", Bytes(0, 1536), "1.50 KB")

(***************************************************************************)
(* What the claims say of a scan beside another process                    *)
(***************************************************************************)
\* C27: size and count of every CleanupItem describe one set of files, whatever
\* another process creates or deletes during the scan: no size without a count, and
\* (every file here being MaxFileSize long) the size of exactly `count` files.
C27_AsClaimed ==
    scanning.stage = "done" =>
        \A i \in 1..Len(scanning.items) :
            LET item == scanning.items[i]
            IN  /\ item.count = 0 => item.size = 0
                /\ item.size > 0 => item.count > 0
                /\ item.size = item.count * MaxFileSize

\* The same of a scan that nothing interferes with.
C27_Undisturbed ==
    phase = "scanned" =>
        \A i \in 1..Len(items) :
            /\ items[i].count = 0 => items[i].size = 0
            /\ items[i].size > 0 => items[i].count > 0

\* A file was deleted between the two traversals: a size without a count.
C27_SizeWithoutCount ==
    /\ scanning.stage = "done"
    /\ \E i \in 1..Len(scanning.items) :
          scanning.items[i].size > 0 /\ scanning.items[i].count = 0

(***************************************************************************)
(* What the claims say of two cleanups side by side                        *)
(***************************************************************************)
BothFinished == \A i \in DOMAIN cleaners.procs : cleaners.procs[i].pc = "done"

\* The directories of the category under cleanup that existed when the two began.
AtStart == {p \in cleaners.existed : \E k \in DOMAIN PathsOf(cleaners.category) :
                                         PathsOf(cleaners.category)[k] = p}

\* C28: two cleanups of one directory-backed category run side by side on a
\* directory that existed at the start; however their steps interleave, once both
\* have finished the directory exists and is empty.
C28_ExistsAndEmptyAfterBoth ==
    cleaners.category # "none" /\ BothFinished =>
        \A p \in AtStart :
            /\ fs[p].kind = "dir"
            /\ \A n \in DOMAIN fs : ~IsBelow(fs, n, p)

\* Both have finished on a directory that held something, one of them with an error.
C28_Witness ==
    /\ cleaners.category # "none"
    /\ BothFinished
    /\ AtStart # {}
    /\ \E i, j \in DOMAIN cleaners.procs :
          cleaners.procs[i].result = "Err" /\ cleaners.procs[j].result = "Ok"
    /\ AtStart \cap cleaners.filled # {}

====
